---- MODULE Spec2Model ----
(***************************************************************************)
(* ProjectCache (services/cache): the in-memory index of project notes,    *)
(* its document scanner (reindex), lookup (getTask) and mutation gateway   *)
(* (updateTask), together with the host (vault + metadata cache) they run  *)
(* against.                                                                *)
(*                                                                         *)
(* Text representation.  Strings the code concatenates, lower-cases or     *)
(* suffix-tests (paths, task ids, composite keys, display text) are tuples *)
(* of one-character strings.  A document is the array `text.split("\n")`:  *)
(* a non-empty sequence of line records.  A line record keeps the parts of *)
(* the line that the regular expressions of the code look at:              *)
(*   kind   "item"  a list item at line start:   - [g] text k:: v ^anchor  *)
(*          "row"   a pipe row with a checkbox:  | c1 | - [g] text k:: v | *)
(*          "pipe"  a pipe row without checkbox: | c1 | c2 | c3 |          *)
(*          "text"  any other line (continuation line, blank line)         *)
(*   cells  the trimmed cells between the boundary pipes; the checkbox     *)
(*          cell of a row is the marker TaskCell                           *)
(*   glyph  the character between the brackets ("" = plain bullet)         *)
(*   text   the words after the checkbox                                   *)
(*   marks  the glyphs of further `- [g]` tokens inside the text           *)
(*   kv     the `key:: value` tokens of the line, in textual order         *)
(*   emoji  the date tokens `icon yyyy-mm-dd` that follow them; an icon is *)
(*          written by its name: "start", "scheduled", "takeoff", "due",   *)
(*          "done"                                                         *)
(*   anchor the trailing ^block-id (<<>> when absent)                      *)
(*   tail   `key:: value` tokens after everything else on the line (what   *)
(*          updateTask appends)                                            *)
(*   closed the row ends with a pipe (FALSE once updateTask has replaced   *)
(*          the rest of the row by new text)                               *)
(***************************************************************************)
EXTENDS Integers, Sequences, FiniteSets, TLC

VARIABLES
    vault,       \* path -> [fm, lines, flag, items]: the project flag and the lines of
                 \* the text, and what the metadata cache holds of them
    host,        \* what the host's metadata cache exposes (fixed per run)
    heap,        \* object id -> TaskItem (the TaskItem objects that are still referenced)
    projects,    \* this.projects : path -> ProjectEntry (tasks are object ids)
    tasks,       \* this.tasks    : insertion-ordered <<[key, ref]>>
    milestones,  \* this.milestones
    listeners,   \* this.listeners : insertion-ordered set of callbacks
    handles,     \* callbacks for which onChange has returned an unsubscribe handle
    rx,          \* activations of reindex(): where each one is suspended
    upd,         \* activations of updateTask(): where each one is suspended
    ev,          \* what the last step did (call, result, callbacks invoked)
    hist,        \* index left by the last undisturbed reindex() (for comparisons)
    budget,      \* calls the environment may still start
    tl           \* the TimelineView: its fields, the scroll offsets of its right pane,
                 \* the animation-frame callbacks that wait for the next frame

vars == <<vault, host, heap, projects, tasks, milestones, listeners, handles,
          rx, upd, ev, hist, budget, tl>>

(***************************************************************************)
(* Bounds                                                                  *)
(***************************************************************************)
\* lines of the first note
MaxLines == 2
\* calls the environment starts when calls interleave (Spec)
MaxCalls == 3
\* reindex() activations that can be suspended at the same time
MaxRx == 2
\* calls the environment starts one after the other (SpecSeq)
MaxSeqCalls == 2
\* reindex() calls of the scan-only runs (SpecScan)
MaxScanCalls == 2
\* calls of the runs that update one task after the other (SpecUpd)
MaxUpdCalls == 2
\* onChange, unsubscribe and reindex() calls of the runs with observers (SpecObs)
MaxObsCalls == 5
\* reindex() and createActionItem() calls of the runs of the modal (SpecCreate)
MaxCreateCalls == 3
\* reindex() calls of the runs with overlapping reindex() calls only (SpecPair)
MaxPairCalls == 2
\* saveAndRender() calls between two animation frames (SpecView)
MaxBatch == 2
\* largest scroll offset of the right pane, vertical and horizontal
MaxScrollTop == 2
MaxScrollLeft == 1
\* reindex() calls of the runs in which the user edits notes (SpecEdit)
MaxEditCalls == 2
\* lines of the notes the user edits
MaxEditLines == 3

(***************************************************************************)
(* Strings                                                                 *)
(***************************************************************************)
Undefined == "undefined"

LowerChar(c) ==
    CASE c = "A" -> "a" [] c = "B" -> "b" [] c = "E" -> "e" [] c = "P" -> "p"
      [] c = "S" -> "s" [] c = "T" -> "t" [] OTHER -> c

toLowerCase(s) == [i \in 1..Len(s) |-> LowerChar(s[i])]

\* String.prototype.endsWith
endsWith(s, suffix) ==
    /\ Len(suffix) <= Len(s)
    /\ SubSeq(s, Len(s) - Len(suffix) + 1, Len(s)) = suffix

\* the characters of the atomic strings that end up in ids
Chars(s) ==
    CASE s = "E-1" -> <<"E", "-", "1">>
      [] s = "E-2" -> <<"E", "-", "2">>
      [] s = "S-1" -> <<"S", "-", "1">>
      [] s = "E-3" -> <<"E", "-", "3">>
      [] s = "E-4" -> <<"E", "-", "4">>
      [] s = "E-5" -> <<"E", "-", "5">>
      [] s = "M1"  -> <<"M", "1">>
      [] OTHER     -> <<>>

\* `${n}` for a line index
NumChars(n) == IF n < 10 THEN <<ToString(n)>> ELSE <<ToString(n \div 10), ToString(n % 10)>>

\* toLowerCase on the atomic strings of cells and keys
LowerStr(s) ==
    CASE s = "High" -> "high" [] s = "Due" -> "due" [] s = "E-1" -> "e-1"
      [] s = "E-2" -> "e-2" [] s = "S-1" -> "s-1" [] s = "M1" -> "m1"
      [] s = "E-3" -> "e-3" [] s = "E-4" -> "e-4" [] s = "E-5" -> "e-5"
      [] s = "Improve onboarding" -> "improve onboarding"
      [] s = "Title" -> "title" [] s = "Date" -> "date" [] s = "ID" -> "id"
      [] s = "Ann" -> "ann" [] OTHER -> s

\* rank of a string in the order of the JavaScript `<` on strings
StrRank(s) ==
    CASE s = "2025-01-01" -> 1 [] s = "2025-02-01" -> 2 [] s = "2025-03-03" -> 3
      [] s = "2025-06-01" -> 4 [] s = "2025-08-01" -> 5 [] OTHER -> 6

\* a < b on strings: by the leading date, a proper prefix first
StrLess(a, b) ==
    LET pa == IF Len(a) > 10 THEN SubSeq(a, 1, 10) ELSE a
        pb == IF Len(b) > 10 THEN SubSeq(b, 1, 10) ELSE b
    IN StrRank(pa) < StrRank(pb) \/ (StrRank(pa) = StrRank(pb) /\ Len(a) < Len(b))

\* the string of a tuple of characters
RECURSIVE Str(_)
Str(cs) == IF cs = <<>> THEN "" ELSE cs[1] \o Str(Tail(cs))

Paths == {<<"P">>, <<"q">>}
\* vault.getMarkdownFiles()
Files == << <<"P">>, <<"q">> >>

makeTaskKey(filePath, id) == toLowerCase(filePath) \o <<":", ":">> \o toLowerCase(id)

(***************************************************************************)
(* Lines                                                                   *)
(***************************************************************************)
TaskCell == "#task"
TailCell == "#tail"

MkLine(kind, cells, glyph, text, kv, anchor) ==
    [kind |-> kind, cells |-> cells, glyph |-> glyph, text |-> text, marks |-> <<>>,
     kv |-> kv, emoji |-> <<>>, anchor |-> anchor, tail |-> <<>>, closed |-> TRUE]

\* "" (an empty line)
EmptyLine == MkLine("text", <<>>, "", <<>>, <<>>, <<>>)

\* fileLines[i] ?? ""
LineAt(lines, i) == IF i >= 0 /\ i < Len(lines) THEN lines[i + 1] ELSE EmptyLine

\* /^\s*\|/
PipeLeading(line) == line.kind \in {"row", "pipe"}

\* /^\d{4}-\d{2}-\d{2}$/
IsIsoDate(c) == c \in {"2025-01-01", "2025-02-01", "2025-03-03", "2025-06-01", "2025-08-01"}

\* /^[Ee]-\d+$/ and /^[Ss]-\d+$/
IsEpicRef(c) == c \in {"E-1", "E-2", "E-3", "E-4", "E-5", "e-1", "e-2", "e-3", "e-4", "e-5"}
IsStoryRef(c) == c \in {"S-1", "s-1"}

PriorityVocabulary ==
    {"critical", "crit", "c", "p0", "highest", "high", "h", "1", "p1",
     "medium", "med", "m", "2", "p2", "low", "l", "3", "p3"}

\* /^\s*\|\s*([A-Za-z0-9_-]+)\s*\|/ : the first cell is a word of id characters
IsIdWord(c) == Chars(c) # <<>>

(***************************************************************************)
(* The host: the metadata cache's list items of a document.  A list item   *)
(* is reported for every "item" line, spanning the continuation lines that *)
(* follow it; whether rows of a table are reported too (without `task`),   *)
(* and whether items carry an `attributes` array, depends on the host.     *)
(***************************************************************************)
RECURSIVE BlockEnd(_, _)
BlockEnd(lines, i) ==
    IF i + 1 < Len(lines) /\ LineAt(lines, i + 1).kind = "text"
                          /\ LineAt(lines, i + 1) # EmptyLine
    THEN BlockEnd(lines, i + 1)
    ELSE i

RECURSIVE AttrsOf(_, _, _)
AttrsOf(lines, from, to) ==
    IF from > to THEN <<>>
    ELSE LineAt(lines, from).kv \o LineAt(lines, from).tail \o AttrsOf(lines, from + 1, to)

HostItem(h, lines, i) ==
    LET l == LineAt(lines, i)
        e == IF l.kind = "item" THEN BlockEnd(lines, i) ELSE i
    IN [line       |-> i,
        endLine    |-> e,
        task       |-> IF l.kind = "item" /\ l.glyph # "" THEN l.glyph ELSE Undefined,
        id         |-> IF l.tail = <<>> THEN l.anchor ELSE <<>>,
        attributes |-> IF h.attrs /\ l.kind = "item" THEN AttrsOf(lines, i + 1, e) ELSE <<>>]

RECURSIVE HostItemsFrom(_, _, _)
HostItemsFrom(h, lines, i) ==
    IF i >= Len(lines) THEN <<>>
    ELSE LET l == LineAt(lines, i)
             listed == l.kind = "item" \/ (l.kind = "row" /\ h.tableItems)
         IN (IF listed THEN <<HostItem(h, lines, i)>> ELSE <<>>)
            \o HostItemsFrom(h, lines, i + 1)

\* metadataCache.getFileCache(file).listItems
HostParse(h, lines) == HostItemsFrom(h, lines, 0)

(***************************************************************************)
(* Inline annotations and table-cell heuristics                            *)
(***************************************************************************)
NoProps == [k \in {} |-> ""]

\* props[k] = v
SetProp(props, k, v) == [x \in DOMAIN props \cup {k} |-> IF x = k THEN v ELSE props[x]]

\* props[k]  (undefined when absent)
GetProp(props, k) == IF k \in DOMAIN props THEN props[k] ELSE Undefined

\* .forEach(([, k, v]) => (props[k.toLowerCase()] = v.trim()))
RECURSIVE ApplyPairs(_, _)
ApplyPairs(props, pairs) ==
    IF pairs = <<>> THEN props
    ELSE ApplyPairs(SetProp(props, LowerStr(pairs[1][1]), pairs[1][2]), Tail(pairs))

\* the text of `key:: value` tokens, each preceded by sep
RECURSIVE PairsText(_, _)
PairsText(pairs, sep) ==
    IF pairs = <<>> THEN ""
    ELSE sep \o pairs[1][1] \o ":: " \o pairs[1][2] \o PairsText(Tail(pairs), sep)

\* the text of date tokens, each preceded by a blank
RECURSIVE EmojiText(_)
EmojiText(es) ==
    IF es = <<>> THEN ""
    ELSE " {" \o es[1][1] \o "} " \o es[1][2] \o EmojiText(Tail(es))

AnchorText(line) == IF line.anchor = <<>> THEN "" ELSE " ^" \o Str(line.anchor)

\* the first token of pairs with everything that follows it in its segment: the value
\* group ([^|\n]+) runs on to the next pipe or the end of the line
Capture(pairs, sep, rest) ==
    IF pairs = <<>> THEN <<>>
    ELSE << <<pairs[1][1], pairs[1][2] \o PairsText(Tail(pairs), sep) \o rest>> >>

\* line.matchAll(/([A-Za-z0-9_-]+)::\s*([^|\n]+)/g), values trimmed
InlinePairs(line) ==
    IF PipeLeading(line)
    THEN Capture(line.kv, " ", EmojiText(line.emoji)) \o Capture(line.tail, "  ", "")
    ELSE IF line.kv # <<>>
    THEN Capture(line.kv, " ", EmojiText(line.emoji) \o AnchorText(line)
                               \o PairsText(line.tail, "  "))
    ELSE Capture(line.tail, "  ", "")

\* what follows the last pipe of a row, trimmed: "" or the marker TailCell
LastCell(line) == IF line.tail = <<>> /\ line.anchor = <<>> THEN "" ELSE TailCell

\* line.split("|").map(trim), leading and trailing empty cell removed
SplitCells(line) ==
    IF ~PipeLeading(line) THEN <<>>
    ELSE line.cells \o (IF LastCell(line) = "" THEN <<>> ELSE <<LastCell(line)>>)

\* faulty variant: the rightmost cell in the priority vocabulary
PriorityIndexFromRight(cells, i) ==
    IF \E j \in i..Len(cells) : LowerStr(cells[j]) \in PriorityVocabulary
    THEN CHOOSE j \in i..Len(cells) :
             /\ LowerStr(cells[j]) \in PriorityVocabulary
             /\ \A k \in i..Len(cells) : LowerStr(cells[k]) \in PriorityVocabulary => k <= j
    ELSE 0

\* index (1-based) of the leftmost cell in the priority vocabulary, 0 when none
RECURSIVE PriorityIndex(_, _)
PriorityIndex(cells, i) ==
    IF i > Len(cells) THEN 0
    ELSE IF LowerStr(cells[i]) \in PriorityVocabulary THEN i
    ELSE PriorityIndex(cells, i + 1)

\* index (1-based) of the rightmost non-empty non-date cell at 0-based index >= 2
RECURSIVE DescriptionIndex(_, _)
DescriptionIndex(cells, i) ==
    IF i < 3 THEN 0
    ELSE IF cells[i] # "" /\ ~IsIsoDate(cells[i]) THEN i
    ELSE DescriptionIndex(cells, i - 1)

\* the block `if (rowText.includes("|")) { ... }`
TableCellProps(props, line) ==
    IF ~PipeLeading(line) THEN props
    ELSE LET cells == SplitCells(line)
             p1 == IF Len(cells) >= 2 /\ IsEpicRef(cells[2])
                   THEN SetProp(props, "epic", cells[2]) ELSE props
             p2 == IF Len(cells) >= 2 /\ IsStoryRef(cells[2])
                   THEN SetProp(p1, "story", cells[2]) ELSE p1
             pi == PriorityIndex(cells, 1)
             p3 == IF pi # 0 THEN SetProp(p2, "priority", cells[pi]) ELSE p2
             di == DescriptionIndex(cells, Len(cells))
         IN IF di # 0 THEN SetProp(p3, "description", cells[di]) ELSE p3

\* the property a date icon sets
EmojiKey(icon) ==
    CASE icon \in {"start", "scheduled", "takeoff"} -> "start"
      [] icon = "due" -> "due"
      [] OTHER -> "done"

RECURSIVE ApplyEmoji(_, _)
ApplyEmoji(props, es) ==
    IF es = <<>> THEN props
    ELSE ApplyEmoji(SetProp(props, EmojiKey(es[1][1]), es[1][2]), Tail(es))

\* rawBlock.matchAll(/([icons])...(date)/gu) over the lines from..to of the block
RECURSIVE BlockEmoji(_, _, _)
BlockEmoji(lines, from, to) ==
    IF from > to THEN <<>>
    ELSE LineAt(lines, from).emoji \o BlockEmoji(lines, from + 1, to)

\* depAttr.split(/[, ]+/) with "^" stripped and lower-cased
Depends(props) ==
    LET d == GetProp(props, "depends")
    IN IF d = Undefined \/ Chars(d) = <<>> THEN <<>> ELSE <<toLowerCase(Chars(d))>>

\* the glyphs of all `- [g]` tokens of a line: the regular expressions that test a
\* glyph are not anchored and find a token anywhere in the line
Glyphs(line) ==
    IF line.kind \in {"item", "row"}
    THEN {line.glyph} \cup {line.marks[i] : i \in 1..Len(line.marks)}
    ELSE {}

\* /\-\s*\[[xX]\]/
DoneGlyph(line) == Glyphs(line) \cap {"x", "X"} # {}

StatusOf(line) ==
    IF DoneGlyph(line) THEN "done"
    ELSE IF "/" \in Glyphs(line) THEN "in-progress"
    ELSE IF "-" \in Glyphs(line) THEN "on-hold"
    ELSE "not-started"

(***************************************************************************)
(* Document scanner: the structured-item walk                              *)
(***************************************************************************)
NoText == <<"(", "n", "o", " ", "t", "e", "x", "t", ")">>

\* the words of one line that survive the stripping of checkbox and props
RECURSIVE MarkWords(_)
MarkWords(ms) ==
    IF ms = <<>> THEN <<>> ELSE <<" ", "-", " ", "[", ms[1], "]">> \o MarkWords(Tail(ms))

RECURSIVE EmojiWords(_)
EmojiWords(es) ==
    IF es = <<>> THEN <<>> ELSE <<" ", es[1][1], " ", es[1][2]>> \o EmojiWords(Tail(es))

LineWords(l) ==
    (IF PipeLeading(l) THEN <<"|">> ELSE <<>>) \o l.text \o MarkWords(l.marks)
    \o EmojiWords(l.emoji)
    \o (IF l.anchor = <<>> THEN <<>> ELSE <<" ", "^">> \o l.anchor)

RECURSIVE BlockWords(_, _, _)
BlockWords(lines, from, to) ==
    IF from > to THEN <<>>
    ELSE LineWords(LineAt(lines, from)) \o BlockWords(lines, from + 1, to)

\* /^\s*\|.*-\s*\[[ xX/\-]\]/
TableTaskMatch(line) ==
    line.kind = "row" /\ Glyphs(line) \cap {" ", "x", "X", "/", "-"} # {}

\* Boolean(item.task?.checked): `task` is the checkbox character, a string
TaskChecked(item) == FALSE

\* the body of meta.listItems.forEach: <<task>> or <<>> ("not a task at all")
StructuredTask(path, lines, item) ==
    LET firstLineRaw == LineAt(lines, item.line)
        props == ApplyEmoji(
                     TableCellProps(
                         ApplyPairs(ApplyPairs(NoProps, item.attributes),
                                    InlinePairs(firstLineRaw)),
                         firstLineRaw),
                     BlockEmoji(lines, item.line, item.endLine))
        stripped == BlockWords(lines, item.line, item.endLine)
    IN IF item.task = Undefined /\ ~TableTaskMatch(firstLineRaw) THEN <<>>
       ELSE <<[id      |-> IF item.id # <<>> THEN item.id
                           ELSE path \o <<"-">> \o NumChars(item.line),
               file    |-> path,
               line    |-> item.line,
               text    |-> IF stripped = <<>> THEN NoText ELSE stripped,
               props   |-> props,
               checked |-> TaskChecked(item) \/ DoneGlyph(firstLineRaw),
               depends |-> Depends(props),
               status  |-> StatusOf(firstLineRaw)]>>

RECURSIVE StructuredWalk(_, _, _)
StructuredWalk(path, lines, items) ==
    IF items = <<>> THEN <<>>
    ELSE StructuredTask(path, lines, items[1]) \o StructuredWalk(path, lines, Tail(items))

(***************************************************************************)
(* Document scanner: the raw-line fallback walk and the milestone scan     *)
(***************************************************************************)
\* /^\s*\|.*-\s*\[[ xX/\\-]\]/
FallbackTaskMatch(line) ==
    line.kind = "row" /\ Glyphs(line) \cap {" ", "x", "X", "/", "\\", "-"} # {}

\* tasks.find(t => t.line === idx)
HasLine(ts, idx) == \E i \in 1..Len(ts) : ts[i].line = idx

\* block-id precedence for table rows: caret suffix, id column, synthetic
FallbackId(path, line, idx) ==
    toLowerCase(
        IF line.anchor # <<>> /\ line.tail = <<>> THEN line.anchor
        ELSE IF Len(line.cells) >= 1 /\ IsIdWord(line.cells[1]) THEN Chars(line.cells[1])
        ELSE path \o <<"-", "r", "o", "w", "-">> \o NumChars(idx))

\* the text between the first checkbox and the next pipe, without the `key:: value`
\* part, which runs to the end of the cell
FallbackText(line) ==
    LET words == line.text \o MarkWords(line.marks)
                 \o (IF line.kv = <<>> THEN EmojiWords(line.emoji) ELSE <<>>)
    IN IF words = <<>> THEN NoText ELSE words

FallbackTask(path, line, idx) ==
    LET props == TableCellProps(ApplyPairs(NoProps, InlinePairs(line)), line)
    IN [id      |-> FallbackId(path, line, idx),
        file    |-> path,
        line    |-> idx,
        text    |-> FallbackText(line),
        props   |-> props,
        checked |-> DoneGlyph(line),
        depends |-> Depends(props),
        status  |-> StatusOf(line)]

\* /\bDate\b/i, /\bTitle\b/i
HasWord(line, w) == \E i \in 1..Len(line.cells) : LowerStr(line.cells[i]) = w

IsMilestoneHeader(line) ==
    PipeLeading(line) /\ HasWord(line, "date") /\ HasWord(line, "title")

\* row.split("|").map(c => c.trim())
RawCells(line) ==
    <<"">> \o line.cells \o (IF line.closed THEN <<LastCell(line)>> ELSE <<>>)

\* the rows below a header, up to the first line without a leading pipe
RECURSIVE MilestoneRows(_, _, _)
MilestoneRows(path, lines, r) ==
    IF r >= Len(lines) \/ ~PipeLeading(LineAt(lines, r)) THEN <<>>
    ELSE LET cells == RawCells(LineAt(lines, r))
         IN (IF Len(cells) >= 4 /\ IsIsoDate(cells[4])
             THEN <<[id    |-> cells[2],
                     title |-> cells[3],
                     date  |-> cells[4],
                     desc  |-> IF Len(cells) >= 5 THEN cells[5] ELSE "",
                     file  |-> path]>>
             ELSE <<>>)
            \o MilestoneRows(path, lines, r + 1)

\* the inner fileLines.forEach of lines 405-428
RECURSIVE MilestoneScan(_, _, _)
MilestoneScan(path, lines, idx) ==
    IF idx >= Len(lines) THEN <<>>
    ELSE (IF IsMilestoneHeader(LineAt(lines, idx))
          THEN MilestoneRows(path, lines, idx + 1) ELSE <<>>)
         \o MilestoneScan(path, lines, idx + 1)

\* faulty variant: the fallback walk without its duplicate test
FallbackAcceptsSeenLine(ts, line, idx) == FallbackTaskMatch(line)

\* the row passes the pattern test and the duplicate test of the fallback walk
FallbackAccepts(ts, line, idx) == FallbackTaskMatch(line) /\ ~HasLine(ts, idx)

\* fileLines.forEach((line, idx) => ...) : acc = [tasks, ms]
RECURSIVE FallbackWalk(_, _, _, _)
FallbackWalk(path, lines, idx, acc) ==
    IF idx >= Len(lines) THEN acc
    ELSE LET line == LineAt(lines, idx)
         IN IF ~FallbackAccepts(acc.tasks, line, idx)
            THEN FallbackWalk(path, lines, idx + 1, acc)
            ELSE FallbackWalk(path, lines, idx + 1,
                     [tasks |-> Append(acc.tasks, FallbackTask(path, line, idx)),
                      ms    |-> acc.ms \o MilestoneScan(path, lines, 0)])

\* everything reindex derives from one document: tasks in push order, milestones pushed
ScanDocument(path, lines, items) ==
    FallbackWalk(path, lines, 0,
                 [tasks |-> StructuredWalk(path, lines, items), ms |-> <<>>])

dueProperty == "due"
statusProperty == "status"

\* tasks.filter(t => t.checked).length
RECURSIVE CountChecked(_)
CountChecked(ts) ==
    IF ts = <<>> THEN 0
    ELSE (IF ts[1].checked THEN 1 ELSE 0) + CountChecked(Tail(ts))

\* faulty variant: a project without tasks is 0% complete
PercentCompleteEmptyIsZero(ts) ==
    IF Len(ts) = 0 THEN [num |-> 0, den |-> 1]
    ELSE [num |-> CountChecked(ts), den |-> Len(ts)]

\* done / tasks.length as a fraction (1 when there are no tasks)
PercentComplete(ts) ==
    IF Len(ts) = 0 THEN [num |-> 1, den |-> 1]
    ELSE [num |-> CountChecked(ts), den |-> Len(ts)]

\* faulty variant: a checked task counts as well
RECURSIVE NextDueCountsChecked(_, _)
NextDueCountsChecked(ts, nextDue) ==
    IF ts = <<>> THEN nextDue
    ELSE LET due == GetProp(ts[1].props, dueProperty)
         IN NextDueCountsChecked(Tail(ts),
                    IF due # Undefined /\ due # ""
                       /\ (nextDue = Undefined \/ StrLess(due, nextDue))
                    THEN due ELSE nextDue)

\* tasks.forEach(t => { if (due && !t.checked && (!nextDue || due < nextDue)) ... })
RECURSIVE NextDue(_, _)
NextDue(ts, nextDue) ==
    IF ts = <<>> THEN nextDue
    ELSE LET due == GetProp(ts[1].props, dueProperty)
         IN NextDue(Tail(ts),
                    IF due # Undefined /\ due # "" /\ ~ts[1].checked
                       /\ (nextDue = Undefined \/ StrLess(due, nextDue))
                    THEN due ELSE nextDue)

(***************************************************************************)
(* The index: Map/array operations on [heap, projects, tasks, milestones]  *)
(***************************************************************************)
NoProjects == [p \in {} |-> 0]
NoHeap == [o \in {} |-> 0]

Cache == [heap |-> heap, projects |-> projects, tasks |-> tasks, milestones |-> milestones]

\* Map.prototype.get on this.tasks: the object stored under key, 0 when absent
MapGet(m, key) ==
    IF \E i \in 1..Len(m) : m[i].key = key
    THEN m[CHOOSE i \in 1..Len(m) : m[i].key = key].ref
    ELSE 0

\* faulty variant: a set that does not overwrite an existing key
MapSetKeepsFirst(m, key, ref) ==
    IF \E i \in 1..Len(m) : m[i].key = key THEN m
    ELSE Append(m, [key |-> key, ref |-> ref])

\* Map.prototype.set: an existing key keeps its position
MapSet(m, key, ref) ==
    IF \E i \in 1..Len(m) : m[i].key = key
    THEN [i \in 1..Len(m) |-> IF m[i].key = key THEN [key |-> key, ref |-> ref] ELSE m[i]]
    ELSE Append(m, [key |-> key, ref |-> ref])

\* the n smallest object ids that are not in use
RECURSIVE FreshRefs(_, _, _)
FreshRefs(used, k, n) ==
    IF n = 0 THEN <<>>
    ELSE IF k \in used THEN FreshRefs(used, k + 1, n)
    ELSE <<k>> \o FreshRefs(used, k + 1, n - 1)

\* tasks.push(task); this.tasks.set(this.makeTaskKey(file.path, task.id), task)
RECURSIVE SetAll(_, _, _)
SetAll(m, ts, refs) ==
    IF ts = <<>> THEN m
    ELSE SetAll(MapSet(m, makeTaskKey(ts[1].file, ts[1].id), refs[1]), Tail(ts), Tail(refs))

\* faulty variant: the milestone list is not reset
ClearIndexKeepsMilestones(c) ==
    [heap |-> c.heap, projects |-> NoProjects, tasks |-> <<>>, milestones |-> c.milestones]

\* this.projects.clear(); this.tasks.clear(); this.milestones = []
ClearIndex(c) ==
    [heap |-> c.heap, projects |-> NoProjects, tasks |-> <<>>, milestones |-> <<>>]

\* one iteration of `for (const file of files)` after the read has resolved
ScanAndStore(c, path, lines, items) ==
    LET sc   == ScanDocument(path, lines, items)
        refs == FreshRefs(DOMAIN c.heap, 1, Len(sc.tasks))
        new  == {refs[i] : i \in 1..Len(refs)}
        entry == [file            |-> path,
                  tasks           |-> refs,
                  percentComplete |-> PercentComplete(sc.tasks),
                  nextDue         |-> NextDue(sc.tasks, Undefined)]
    IN [heap       |-> [o \in DOMAIN c.heap \cup new |->
                           IF o \in new
                           THEN sc.tasks[CHOOSE i \in 1..Len(refs) : refs[i] = o]
                           ELSE c.heap[o]],
        projects   |-> [p \in DOMAIN c.projects \cup {path} |->
                           IF p = path THEN entry ELSE c.projects[p]],
        tasks      |-> SetAll(c.tasks, sc.tasks, refs),
        milestones |-> c.milestones \o sc.ms]

\* the objects still referenced by the index or by a suspended updateTask
Reachable(c, held) ==
    {c.tasks[i].ref : i \in 1..Len(c.tasks)}
    \cup UNION {{c.projects[p].tasks[i] : i \in 1..Len(c.projects[p].tasks)} :
                  p \in DOMAIN c.projects}
    \cup held

Collect(c, held) ==
    [c EXCEPT !.heap = [o \in DOMAIN c.heap \cap Reachable(c, held) |-> c.heap[o]]]

\* the index as a reader sees it (objects instead of object ids)
ViewOf(c) ==
    [projects   |-> [p \in DOMAIN c.projects |->
                        [tasks |-> [i \in 1..Len(c.projects[p].tasks) |->
                                       c.heap[c.projects[p].tasks[i]]],
                         percentComplete |-> c.projects[p].percentComplete,
                         nextDue |-> c.projects[p].nextDue]],
     tasks      |-> [i \in 1..Len(c.tasks) |->
                        [key |-> c.tasks[i].key, task |-> c.heap[c.tasks[i].ref]]],
     milestones |-> c.milestones]

View == ViewOf(Cache)

\* getTask(taskId): the object found, 0 for undefined
RECURSIVE ScanBySuffix(_, _, _)
ScanBySuffix(m, i, suffix) ==
    IF i > Len(m) THEN 0
    ELSE IF endsWith(m[i].key, suffix) THEN m[i].ref
    ELSE ScanBySuffix(m, i + 1, suffix)

getTask(m, taskId) ==
    IF MapGet(m, taskId) # 0 THEN MapGet(m, taskId)
    ELSE ScanBySuffix(m, 1, <<":", ":">> \o toLowerCase(taskId))

(***************************************************************************)
(* updateTask: the rewriting of the document text                          *)
(* changes = [checked: "none" | "true" | "false", text: <<>> for absent,   *)
(*            props: the other keys of `changes`, in key order]            *)
(***************************************************************************)
NoChange == [checked |-> "none", text |-> <<>>, props |-> <<>>]

\* line.replace(/^\s*-\s*\[[ xX]\]/, `- [${changes.checked ? "x" : " "}]`)
RewriteChecked(line, checked) ==
    IF checked # "none" /\ line.kind = "item" /\ line.glyph \in {" ", "x", "X"}
    THEN [line EXCEPT !.glyph = IF checked = "true" THEN "x" ELSE " "]
    ELSE line

RECURSIVE ThroughTaskCell(_)
ThroughTaskCell(cells) ==
    IF cells = <<>> THEN <<>>
    ELSE IF cells[1] = TaskCell THEN <<TaskCell>>
    ELSE <<cells[1]>> \o ThroughTaskCell(Tail(cells))

\* line.replace(/\](.*?)(\^\w+)?$/, `] ${changes.text} ${task.id}`)
RewriteText(line, text, id) ==
    IF text = <<>> \/ ~(line.kind = "row" \/ (line.kind = "item" /\ line.glyph # ""))
    THEN line
    ELSE [line EXCEPT !.text = text \o <<" ">> \o id, !.marks = <<>>, !.kv = <<>>,
                      !.emoji = <<>>, !.anchor = <<>>,
                      !.tail = <<>>, !.cells = ThroughTaskCell(line.cells),
                      !.closed = (line.kind # "row")]

\* index of the first `k:: value` token of pairs, 0 when none
RECURSIVE FirstKey(_, _, _)
FirstKey(pairs, k, i) ==
    IF i > Len(pairs) THEN 0
    ELSE IF pairs[i][1] = k THEN i
    ELSE FirstKey(pairs, k, i + 1)

\* regex.test(attrLine) ? attrLine.replace(regex, `${k}:: ${val}`) : attrLine + `  ${k}:: ${val}`
RewriteAttr(attrLine, k, val) ==
    LET i == FirstKey(attrLine.kv, k, 1)
        j == FirstKey(attrLine.tail, k, 1)
    IN IF i # 0 THEN [attrLine EXCEPT !.kv[i] = <<k, val>>]
       ELSE IF j # 0 THEN [attrLine EXCEPT !.tail[j] = <<k, val>>]
       ELSE [attrLine EXCEPT !.tail = Append(attrLine.tail, <<k, val>>)]

RECURSIVE RewriteAttrs(_, _)
RewriteAttrs(attrLine, pairs) ==
    IF pairs = <<>> THEN attrLine
    ELSE RewriteAttrs(RewriteAttr(attrLine, pairs[1][1], pairs[1][2]), Tail(pairs))

\* lines[i] = l  (an index past the end extends the array)
SetLine(lines, i, l) ==
    [j \in 1..(IF i + 1 > Len(lines) THEN i + 1 ELSE Len(lines)) |->
        IF j = i + 1 THEN l ELSE LineAt(lines, j - 1)]

\* the line that receives the changed properties
\* faulty variant: the attribute line is the second line after the primary line
AttrLineIndexSkipsOne(task) == task.line + 2

AttrLineIndex(task) == task.line + 1

\* the array `lines` as updateTask hands it to vault.modify
RewrittenLinesStatusChecks(lines, task, ch) ==
    LET sets == \E i \in 1..Len(ch.props) : ch.props[i][1] = statusProperty
        done == \E i \in 1..Len(ch.props) : ch.props[i] = <<statusProperty, "done">>
        line == RewriteText(RewriteChecked(LineAt(lines, task.line),
                                           IF sets THEN (IF done THEN "true" ELSE "false")
                                           ELSE ch.checked),
                            ch.text, task.id)
        withAttr == IF ch.props = <<>> THEN lines
                    ELSE SetLine(lines, AttrLineIndex(task),
                                 RewriteAttrs(LineAt(lines, AttrLineIndex(task)), ch.props))
    IN SetLine(withAttr, task.line, line)

RewrittenLines(lines, task, ch) ==
    LET line == RewriteText(RewriteChecked(LineAt(lines, task.line), ch.checked),
                            ch.text, task.id)
        withAttr == IF ch.props = <<>> THEN lines
                    ELSE SetLine(lines, AttrLineIndex(task),
                                 RewriteAttrs(LineAt(lines, AttrLineIndex(task)), ch.props))
    IN SetLine(withAttr, task.line, line)

\* task.props[k] = val for every changed key
RECURSIVE AssignProps(_, _)
AssignProps(props, pairs) ==
    IF pairs = <<>> THEN props
    ELSE AssignProps(SetProp(props, pairs[1][1], pairs[1][2]), Tail(pairs))

\* the assignments updateTask makes to the TaskItem it looked up
MutatedTask(task, ch) ==
    [task EXCEPT !.checked = IF ch.checked = "none" THEN @ ELSE ch.checked = "true",
                 !.text    = IF ch.text = <<>> THEN @ ELSE ch.text,
                 !.props   = AssignProps(@, ch.props)]

(***************************************************************************)
(* Documents the vault may hold                                            *)
(***************************************************************************)
\* - [ ] B
ItemB == MkLine("item", <<>>, " ", <<"B">>, <<>>, <<>>)
\* - [x] T due:: 2025-01-01 ^A1
ItemT == MkLine("item", <<>>, "x", <<"T">>, << <<"due", "2025-01-01">> >>, <<"A", "1">>)
\*   Due:: 2025-02-01
AttrDue == MkLine("text", <<>>, "", <<>>, << <<"Due", "2025-02-01">> >>, <<>>)
\* | E-1 | - [ ] B |
RowE1 == MkLine("row", <<"E-1", TaskCell>>, " ", <<"B">>, <<>>, <<>>)
\* | E-1 | - [/] T | High | 2025-06-01 |
RowE1b == MkLine("row", <<"E-1", TaskCell, "High", "2025-06-01">>, "/", <<"T">>, <<>>, <<>>)
\* | E-2 | - [x] T due:: 2025-02-01 | 2025-06-01 |
RowE2 == MkLine("row", <<"E-2", TaskCell, "2025-06-01">>, "x", <<"T">>,
                << <<"due", "2025-02-01">> >>, <<>>)
\* | ID | Title | Date |
Header == MkLine("pipe", <<"ID", "Title", "Date">>, "", <<>>, <<>>, <<>>)
\* | M1 | Launch | 2025-06-01 |
MRow == MkLine("pipe", <<"M1", "Launch", "2025-06-01">>, "", <<>>, <<>>, <<>>)

LineSet == {ItemB, ItemT, AttrDue, RowE1, RowE1b, RowE2, Header, MRow}

\* every document of 1..MaxLines lines
SeqDocs == UNION {[1..n -> LineSet] : n \in 1..MaxLines}

\* - [ ] Q - [x]
ItemQ == [MkLine("item", <<>>, " ", <<"Q">>, <<>>, <<>>) EXCEPT !.marks = <<"x">>]
\* | E-3 | - [ ] Q - [/] |
RowQ == [MkLine("row", <<"E-3", TaskCell>>, " ", <<"Q">>, <<>>, <<>>) EXCEPT !.marks = <<"/">>]

\* - [ ] T due:: 2025-01-01 {due} 2025-02-01
ItemE == [MkLine("item", <<>>, " ", <<"T">>, << <<"due", "2025-01-01">> >>, <<>>)
             EXCEPT !.emoji = << <<"due", "2025-02-01">> >>]
\* | E-4 | - [ ] T due:: 2025-01-01 {due} 2025-02-01 |
RowE == [MkLine("row", <<"E-4", TaskCell>>, " ", <<"T">>, << <<"due", "2025-01-01">> >>, <<>>)
            EXCEPT !.emoji = << <<"due", "2025-02-01">> >>]
\* - [ ] T start:: 2025-01-01 {takeoff} 2025-03-03
ItemS == [MkLine("item", <<>>, " ", <<"T">>, << <<"start", "2025-01-01">> >>, <<>>)
             EXCEPT !.emoji = << <<"takeoff", "2025-03-03">> >>]

\* | S-1 | E-1 | - [ ] Design | | Ann | high | 1 | 2025-01-01 | 2025-02-01 | Improve onboarding |
RowStory == MkLine("row", <<"S-1", "E-1", TaskCell, "", "Ann", "high", "1", "2025-01-01",
                            "2025-02-01", "Improve onboarding">>,
                   " ", <<"D", "e", "s", "i", "g", "n">>, <<>>, <<>>)
\* | E-5 | - [ ] T priority:: urgent |
RowP == MkLine("row", <<"E-5", TaskCell>>, " ", <<"T">>, << <<"priority", "urgent">> >>, <<>>)

\* - [ ] E-1 Build API
ItemA == MkLine("item", <<>>, " ", <<"E-1", " ", "Build", " ", "API">>, <<>>, <<>>)
\*   due:: 2025-08-01
ContDue == MkLine("text", <<>>, "", <<>>, << <<"due", "2025-08-01">> >>, <<>>)
\*   assignee:: Ann
ContAnn == MkLine("text", <<>>, "", <<>>, << <<"assignee", "Ann">> >>, <<>>)

\* the lines createTaskLine() makes for task E-1 "Build API"
ActionItemDoc == <<ItemA, ContDue, ContAnn>>

\* | S-1 | E-1 | - [ ] T description:: Fix login | Ann |
RowD == MkLine("row", <<"S-1", "E-1", TaskCell, "Ann">>, " ", <<"T">>,
               << <<"description", "Fix login">> >>, <<>>)
\* | E-1 | - [ ] T description:: Fix login |
RowD1 == MkLine("row", <<"E-1", TaskCell>>, " ", <<"T">>,
                << <<"description", "Fix login">> >>, <<>>)

\* - [x] T due:: 2025-01-01
ItemX1 == MkLine("item", <<>>, "x", <<"T">>, << <<"due", "2025-01-01">> >>, <<>>)
\* - [ ] T due:: 2025-06-01
ItemD6 == MkLine("item", <<>>, " ", <<"T">>, << <<"due", "2025-06-01">> >>, <<>>)
\* - [ ] T due:: 2025-02-01
ItemD2 == MkLine("item", <<>>, " ", <<"T">>, << <<"due", "2025-02-01">> >>, <<>>)
\* a note whose checked task is due first and whose open tasks are due in falling order
DueDoc == <<ItemX1, ItemD6, ItemD2>>

\* notes for the scanner beyond the documents over LineSet
ParseDocs ==
    {<<ItemQ>>, <<RowQ>>, <<ItemE>>, <<RowE>>, <<ItemS>>, <<RowStory>>, <<RowP>>,
     <<RowD>>, <<RowD1>>, DueDoc,
     ActionItemDoc,
     <<RowE2, RowE1, RowE1b, RowQ>>}

\* the documents of the runs that only scan
ScanDocs == SeqDocs \cup ParseDocs

\* the documents of the runs that interleave calls
ConcDocs == {<<RowE1, RowE1b>>, <<ItemB, AttrDue>>, <<Header, RowE2>>}

\* the second note of the vault
OtherDoc == <<RowE1>>

Hosts == [attrs : BOOLEAN, tableItems : BOOLEAN]

\* the host of the runs that interleave calls: list items carry no attributes and table
\* rows are not list items
ConcHosts == {[attrs |-> FALSE, tableItems |-> FALSE]}

Callbacks == {1, 2}
Rx == 1..MaxRx
Updaters == {1}

\* the `changes` arguments callers pass
ChangeSet ==
    {[NoChange EXCEPT !.checked = "true"],
     [NoChange EXCEPT !.checked = "false"],
     [NoChange EXCEPT !.text = <<"T">>],
     [NoChange EXCEPT !.props = << <<"due", "2025-03-03">> >>],
     [NoChange EXCEPT !.props = << <<statusProperty, "done">> >>]}

\* the changes of the runs that interleave calls
ConcChanges ==
    {[NoChange EXCEPT !.checked = "true"],
     [NoChange EXCEPT !.props = << <<"due", "2025-03-03">> >>]}

(***************************************************************************)
(* Activations                                                             *)
(***************************************************************************)
IdleRx == [pc |-> "idle", i |-> 0, owner |-> 0, clean |-> FALSE]
IdleUpd == [pc |-> "idle", ref |-> 0, id |-> <<>>, ch |-> NoChange,
            before |-> <<>>, lines |-> <<>>]
NoHist == [valid |-> FALSE, view |-> <<>>]
NoEvent == [op |-> "", r |-> 0, u |-> 0, cb |-> 0, id |-> <<>>, res |-> "", ch |-> NoChange,
            before |-> <<>>, calls |-> <<>>, fin |-> FALSE, ret |-> "", twice |-> FALSE]

Event(op, r, u) == [NoEvent EXCEPT !.op = op, !.r = r, !.u = u]

ActiveRx == {r \in Rx : rx[r].pc # "idle"}
FreeRx == IF Rx \ ActiveRx = {} THEN 0
          ELSE CHOOSE r \in Rx \ ActiveRx : \A x \in Rx \ ActiveRx : r <= x
Quiet == ActiveRx = {} /\ \A u \in Updaters : upd[u].pc = "idle"

\* !meta?.frontmatter || !meta.frontmatter[flag]  =>  continue
RECURSIVE NextFlagged(_)
NextFlagged(j) ==
    IF j > Len(Files) THEN 0
    ELSE IF vault[Files[j]].flag THEN j
    ELSE NextFlagged(j + 1)

Held(us) == {us[u].ref : u \in Updaters} \ {0}

\* every running reindex() has now been overlapped or seen a change
Disturbed(rxs) == [r \in Rx |-> [rxs[r] EXCEPT !.clean = FALSE]]

\* Set.prototype.add / delete on an insertion-ordered set
SetAdd(q, x) == IF \E i \in 1..Len(q) : q[i] = x THEN q ELSE Append(q, x)
SetDelete(q, x) == SelectSeq(q, LAMBDA y : y # x)

\* what a callback does when it is invoked: the callbacks whose unsubscribe handle it
\* calls.  Callback 3 detaches itself (as a view does that closes while it renders),
\* callback 4 detaches callback 1; the others call no handle.
Detaches(cb) ==
    CASE cb = 3 -> {3} \cap handles
      [] cb = 4 -> {1} \cap handles
      [] OTHER  -> {}

\* faulty variant: a loop over an array by position, which skips the entry that moves
\* into the place of a deleted one
RECURSIVE ForEachByIndex(_, _, _)
ForEachByIndex(q, i, calls) ==
    IF i > Len(q) THEN [calls |-> calls, listeners |-> q]
    ELSE ForEachByIndex(SelectSeq(q, LAMBDA y : y \notin Detaches(q[i])), i + 1,
                        Append(calls, q[i]))

\* Set.prototype.forEach: the entries are visited in insertion order; an entry deleted
\* before its visit is not visited, a deletion never hides another entry.  q is the set,
\* i the position of the next visit, calls the callbacks invoked so far.
RECURSIVE ForEach(_, _, _)
ForEach(q, i, calls) ==
    IF i > Len(q) THEN [calls |-> calls, listeners |-> q]
    ELSE LET kept == Cardinality({k \in 1..i : q[k] \notin Detaches(q[i])})
         IN ForEach(SelectSeq(q, LAMBDA y : y \notin Detaches(q[i])), kept + 1,
                    Append(calls, q[i]))

\* this.listeners.forEach((f) => f()): the callbacks invoked and the set afterwards
notify == ForEach(listeners, 1, <<>>)

\* faulty variant: notify() inside the loop over the files
NotifyAfterEachFile(done) == notify

\* `this.notify()` follows the loop over the files
NotifyAfterLoop(done) ==
    IF done THEN notify ELSE [calls |-> <<>>, listeners |-> listeners]

(***************************************************************************)
(* reindex(), from a point of the loop to its next await or to its end.    *)
(* c is the index so far, j the next position in `files`.                  *)
(***************************************************************************)
Continue(c, r, from, owner, clean, op, rxBase, updBase, histBase) ==
    LET j    == NextFlagged(from)
        done == j = 0
        us   == IF done /\ owner # 0 THEN [updBase EXCEPT ![owner] = IdleUpd] ELSE updBase
        c2   == Collect(c, Held(us))
    IN /\ heap' = c2.heap
       /\ projects' = c2.projects
       /\ tasks' = c2.tasks
       /\ milestones' = c2.milestones
       /\ upd' = us
       /\ rx' = [rxBase EXCEPT ![r] =
                    IF done THEN IdleRx
                    ELSE [pc |-> "read", i |-> j, owner |-> owner, clean |-> clean]]
       /\ listeners' = NotifyAfterLoop(done).listeners
       /\ ev' = [Event(op, r, owner) EXCEPT
                    !.calls = NotifyAfterLoop(done).calls,
                    !.fin = done,
                    !.ret = IF done /\ owner # 0 THEN "ok" ELSE "",
                    !.id = IF done /\ owner # 0 THEN updBase[owner].id ELSE <<>>,
                    !.ch = IF done /\ owner # 0 THEN updBase[owner].ch ELSE NoChange,
                    !.before = IF done /\ owner # 0 THEN updBase[owner].before ELSE <<>>,
                    !.twice = done /\ clean /\ histBase.valid]
       /\ hist' = IF done /\ clean /\ ~histBase.valid
                  THEN [valid |-> TRUE, view |-> ViewOf(c2)]
                  ELSE histBase

\* reindex() up to its first await
Enter(c, r, owner, op, updBase, histBase) ==
    Continue(ClearIndex(c), r, 1, owner, ActiveRx = {}, op,
             Disturbed(rx), updBase, histBase)

\* a caller (settings tab, plugin events, wizard) calls cache.reindex()
ReindexCall ==
    /\ budget > 0
    /\ FreeRx # 0
    /\ budget' = budget - 1
    /\ Enter(Cache, FreeRx, 0, "reindex", upd, hist)
    /\ UNCHANGED <<vault, host, tl, handles>>

\* `await this.app.vault.read(file)` resolves: scan the file, go on with the loop
ReindexResume(r) ==
    /\ rx[r].pc = "read"
    /\ LET path == Files[rx[r].i]
       IN Continue(ScanAndStore(Cache, path, vault[path].lines, vault[path].items),
                   r, rx[r].i + 1, rx[r].owner, rx[r].clean, "scan", rx, upd, hist)
    /\ UNCHANGED <<vault, host, tl, handles, budget>>

(***************************************************************************)
(* updateTask(taskId, changes)                                             *)
(***************************************************************************)
\* faulty variant: the early return is missing its guard: the index is refreshed anyway
UpdateNotFoundRefreshes(u, id, ch) ==
    /\ FreeRx # 0
    /\ Enter(Cache, FreeRx, 0, "updateTask", upd, hist)
    /\ UNCHANGED <<vault, host, tl, handles>>

\* how the index resolves taskId: an exact key, a key suffix (getTask only), or not at all
Resolution(taskId) ==
    IF MapGet(tasks, taskId) # 0 THEN "key"
    ELSE IF getTask(tasks, taskId) # 0 THEN "suffix"
    ELSE "none"

\* `if (!task) return;`
UpdateNotFound(u, id, ch) ==
    /\ ev' = [Event("updateTask", 0, u) EXCEPT !.res = Resolution(id), !.ret = "miss"]
    /\ UNCHANGED <<vault, host, tl, heap, projects, tasks, milestones, listeners, handles,
                   rx, upd, hist>>

\* the task is found: suspend on `await this.app.vault.read(task.file)`
UpdateFound(u, id, ch) ==
    /\ upd' = [upd EXCEPT ![u] = [pc |-> "read", ref |-> MapGet(tasks, id), id |-> id,
                                  ch |-> ch, before |-> View, lines |-> <<>>]]
    /\ ev' = [Event("updateTask", 0, u) EXCEPT !.id = id, !.res = Resolution(id)]
    /\ UNCHANGED <<vault, host, tl, heap, projects, tasks, milestones, listeners, handles,
                   rx, hist>>

\* the strings callers pass as taskId: composite keys, bare ids, path::id
IdInputs ==
    {tasks[i].key : i \in 1..Len(tasks)}
    \cup {heap[o].id : o \in DOMAIN heap}
    \cup {heap[o].file \o <<":", ":">> \o heap[o].id : o \in DOMAIN heap}
    \cup {<<"z">>}

UpdateCall(u, id, ch) ==
    /\ budget > 0
    /\ upd[u].pc = "idle"
    /\ budget' = budget - 1
    /\ IF MapGet(tasks, id) = 0 THEN UpdateNotFound(u, id, ch) ELSE UpdateFound(u, id, ch)

\* the status values callers pass
StatusValues == {"done", "in-progress"}

\* { [this.plugin.settings.statusProperty]: status }
StatusChange(status) == [NoChange EXCEPT !.props = << <<statusProperty, status>> >>]

\* moveTaskToStatus(taskId, status)
moveTaskToStatus(u, id, status) == UpdateCall(u, id, StatusChange(status))

\* the read resolves: rewrite the lines, assign to the TaskItem, call vault.modify
UpdateRead(u) ==
    /\ upd[u].pc = "read"
    /\ LET task == heap[upd[u].ref]
       IN /\ upd' = [upd EXCEPT ![u].pc = "write",
                                ![u].lines = RewrittenLines(vault[task.file].lines,
                                                            task, upd[u].ch)]
          /\ heap' = [heap EXCEPT ![upd[u].ref] = MutatedTask(task, upd[u].ch)]
    /\ rx' = Disturbed(rx)
    /\ hist' = NoHist
    /\ ev' = Event("read", 0, u)
    /\ UNCHANGED <<vault, host, tl, projects, tasks, milestones, listeners, handles, budget>>

\* the exception of a rejected read or write leaves updateTask
Thrown(u) ==
    /\ upd' = [upd EXCEPT ![u] = IdleUpd]
    /\ heap' = Collect(Cache, {}).heap
    /\ ev' = [Event("throw", 0, u) EXCEPT !.ret = "error", !.id = upd[u].id,
                                          !.ch = upd[u].ch, !.before = upd[u].before]
    /\ UNCHANGED <<vault, host, tl, projects, tasks, milestones, listeners, handles, rx,
                   hist, budget>>

UpdateReadFails(u) ==
    /\ upd[u].pc = "read"
    /\ Thrown(u)

\* faulty variant: updateTask returns once the text is on disk
UpdateWriteReturns(u) ==
    /\ upd[u].pc = "write"
    /\ vault' = [vault EXCEPT ![heap[upd[u].ref].file].lines = upd[u].lines]
    /\ upd' = [upd EXCEPT ![u] = IdleUpd]
    /\ rx' = Disturbed(rx)
    /\ hist' = NoHist
    /\ ev' = [Event("write", 0, u) EXCEPT !.ret = "ok"]
    /\ UNCHANGED <<host, tl, heap, projects, tasks, milestones, listeners, handles, budget>>

\* vault.modify resolves: the text is on disk, `await this.reindex()` starts
UpdateWrite(u) ==
    /\ upd[u].pc = "write"
    /\ FreeRx # 0
    /\ vault' = [vault EXCEPT ![heap[upd[u].ref].file].lines = upd[u].lines]
    /\ Enter(Cache, FreeRx, u, "write",
             [upd EXCEPT ![u].pc = "reindex", ![u].lines = <<>>], NoHist)
    /\ UNCHANGED <<host, tl, handles, budget>>

UpdateWriteFails(u) ==
    /\ upd[u].pc = "write"
    /\ Thrown(u)

(***************************************************************************)
(* Observers and the host                                                  *)
(***************************************************************************)
\* onChange(cb)
OnChange(cb) ==
    /\ budget > 0
    /\ budget' = budget - 1
    /\ listeners' = SetAdd(listeners, cb)
    /\ handles' = handles \cup {cb}
    /\ ev' = Event("onChange", 0, 0)
    /\ UNCHANGED <<vault, host, tl, heap, projects, tasks, milestones, rx, upd, hist>>

\* the function onChange returned is called
Unsubscribe(cb) ==
    /\ budget > 0
    /\ cb \in handles
    /\ budget' = budget - 1
    /\ listeners' = SetDelete(listeners, cb)
    /\ ev' = [Event("unsubscribe", 0, 0) EXCEPT !.cb = cb]
    /\ UNCHANGED <<vault, host, tl, heap, projects, tasks, milestones, handles, rx, upd, hist>>

\* a note whose metadata cache is up to date with its text
Note(h, flag, lines) ==
    [fm |-> flag, lines |-> lines, flag |-> flag, items |-> HostParse(h, lines)]

\* the metadata cache of note p is behind its text
Stale(p) ==
    \/ vault[p].items # HostParse(host, vault[p].lines)
    \/ vault[p].flag # vault[p].fm

\* the host re-parses a modified note
MetaRefresh(p) ==
    /\ Stale(p)
    /\ vault' = [vault EXCEPT ![p].items = HostParse(host, vault[p].lines),
                              ![p].flag = vault[p].fm]
    /\ rx' = Disturbed(rx)
    /\ hist' = NoHist
    /\ ev' = Event("meta", 0, 0)
    /\ UNCHANGED <<host, tl, heap, projects, tasks, milestones, listeners, handles, upd, budget>>

\* the user's edits of a note, made while no call is suspended: a line is deleted,
\* the project flag is set or cleared in the front matter
DeleteLine(p, i) ==
    /\ Quiet
    /\ i \in 1..Len(vault[p].lines)
    /\ vault' = [vault EXCEPT ![p].lines =
                    SubSeq(vault[p].lines, 1, i - 1)
                    \o SubSeq(vault[p].lines, i + 1, Len(vault[p].lines))]
    /\ hist' = NoHist
    /\ ev' = Event("edit", 0, 0)
    /\ UNCHANGED <<host, tl, heap, projects, tasks, milestones, listeners, handles, rx, upd,
                   budget>>

SetFlag(p, b) ==
    /\ Quiet
    /\ vault[p].fm # b
    /\ vault' = [vault EXCEPT ![p].fm = b]
    /\ hist' = NoHist
    /\ ev' = Event("edit", 0, 0)
    /\ UNCHANGED <<host, tl, heap, projects, tasks, milestones, listeners, handles, rx, upd,
                   budget>>

\* the user deletes a note: getMarkdownFiles() no longer lists it and the metadata cache
\* has nothing for it, which reindex() cannot tell from a note without the flag
RemoveNote(p) ==
    /\ Quiet
    /\ vault[p] # Note(host, FALSE, <<>>)
    /\ vault' = [vault EXCEPT ![p] = Note(host, FALSE, <<>>)]
    /\ hist' = NoHist
    /\ ev' = Event("edit", 0, 0)
    /\ UNCHANGED <<host, tl, heap, projects, tasks, milestones, listeners, handles, rx, upd,
                   budget>>

(***************************************************************************)
(* ActionItemModal.createActionItem (newActionItem.ts)                     *)
(***************************************************************************)
Types == {"epic", "story", "subtask"}

\* type === "epic" ? "E" : type === "story" ? "S" : "SB"
Prefix(type) ==
    IF type = "epic" THEN <<"E">> ELSE IF type = "story" THEN <<"S">> ELSE <<"S", "B">>

\* String.prototype.startsWith
startsWith(s, prefix) ==
    /\ Len(prefix) <= Len(s)
    /\ SubSeq(s, 1, Len(prefix)) = prefix

Digits == {"0", "1", "2", "3", "4", "5", "6", "7", "8", "9"}

DigitValue(c) == CHOOSE n \in 0..9 : ToString(n) = c

\* the run of digits (\d+) at position i of cs
RECURSIVE DigitRun(_, _)
DigitRun(cs, i) ==
    IF i <= Len(cs) /\ cs[i] \in Digits THEN <<cs[i]>> \o DigitRun(cs, i + 1) ELSE <<>>

\* parseInt on a run of digits
RECURSIVE parseInt(_)
parseInt(ds) ==
    IF ds = <<>> THEN 0 ELSE 10 * parseInt(SubSeq(ds, 1, Len(ds) - 1)) + DigitValue(ds[Len(ds)])

\* taskId.match(new RegExp(`^${prefix.toLowerCase()}-(\\d+)`, 'i')): the number, -1 when
\* the id does not match
IdNumber(id, type) ==
    LET taskId == toLowerCase(id)
        head   == toLowerCase(Prefix(type)) \o <<"-">>
        run    == DigitRun(taskId, Len(head) + 1)
    IN IF startsWith(taskId, head) /\ run # <<>> THEN parseInt(run) ELSE -1

\* existingTasks.forEach(task => { ... if (num >= nextNumber) nextNumber = num + 1 })
RECURSIVE NextNumber(_, _, _)
NextNumber(ts, type, nextNumber) ==
    IF ts = <<>> THEN nextNumber
    ELSE NextNumber(Tail(ts), type,
                    IF IdNumber(ts[1].id, type) >= nextNumber
                    THEN IdNumber(ts[1].id, type) + 1 ELSE nextNumber)

\* generateTaskId(projectFile, type) over this.cache.getProjectTasks(projectFile.path)
generateTaskId(ts, type) == Prefix(type) \o <<"-">> \o NumChars(NextNumber(ts, type, 1))

\* getProjectTasks(projectPath): the tasks of the entry, [] without an entry
getProjectTasks(path) ==
    IF path \in DOMAIN projects
    THEN [i \in 1..Len(projects[path].tasks) |-> heap[projects[path].tasks[i]]]
    ELSE <<>>

\* createTableRow for an epic with title N, assignee Ann, description "Fix login" and no
\* priority or dates:  | E-n | - [ ] N | assignee:: Ann |  |  |  | Fix login |
\* (the assignee annotation is the line's kv; the empty cells and the description follow)
createTableRow(taskId, type) ==
    MkLine("row", <<Str(taskId), TaskCell, "", "", "", "Fix login">>, " ", <<"N">>,
           << <<"assignee", "Ann">> >>, <<>>)

\* newLines[i].startsWith("## ") || startsWith("### ") || startsWith("#### ")
IsHeading(line) == line.kind = "text" /\ line.text # <<>> /\ line.text[1] = "#"

\* ## Epics, ### Stories, #### Sub-tasks
Heading(type) ==
    MkLine("text", <<>>, "",
           IF type = "epic" THEN <<"#", "#", " ", "E">>
           ELSE IF type = "story" THEN <<"#", "#", "#", " ", "S">>
           ELSE <<"#", "#", "#", "#", " ", "S", "B">>,
           <<>>, <<>>)

\* index of the first line that holds the heading of the table, -1 without one
TableStart(lines, type) ==
    IF \E i \in 0..(Len(lines) - 1) : LineAt(lines, i) = Heading(type)
    THEN CHOOSE i \in 0..(Len(lines) - 1) :
            /\ LineAt(lines, i) = Heading(type)
            /\ \A k \in 0..(i - 1) : LineAt(lines, k) # Heading(type)
    ELSE -1

\* the next heading after tableStart, the end of the file without one
TableEnd(lines, tableStart) ==
    IF \E i \in (tableStart + 1)..(Len(lines) - 1) : IsHeading(LineAt(lines, i))
    THEN CHOOSE i \in (tableStart + 1)..(Len(lines) - 1) :
            /\ IsHeading(LineAt(lines, i))
            /\ \A k \in (tableStart + 1)..(i - 1) : ~IsHeading(LineAt(lines, k))
    ELSE Len(lines)

\* insertIndex = tableEnd; every line of the table with a "|" moves it behind that line
InsertIndex(lines, tableStart, tableEnd) ==
    LET rows == {i \in tableStart..(tableEnd - 1) : PipeLeading(LineAt(lines, i))}
    IN IF rows = {} THEN tableEnd
       ELSE 1 + CHOOSE i \in rows : \A k \in rows : k <= i

\* insertTaskIntoTable(lines, taskLine, type) for a note that has the table of the type:
\* newLines.splice(insertIndex, 0, tableRow)
insertTaskIntoTable(lines, taskId, type) ==
    LET tableStart  == TableStart(lines, type)
        insertIndex == InsertIndex(lines, tableStart, TableEnd(lines, tableStart))
    IN SubSeq(lines, 1, insertIndex) \o <<createTableRow(taskId, type)>>
       \o SubSeq(lines, insertIndex + 1, Len(lines))

\* the note the modal works on: this.data.project
Project == Files[1]

\* createActionItem() up to `await this.app.vault.read(projectFile)`; the form is filled
\* in with a project of the index (the modal lists this.cache.projects) and the note has
\* the table of the type
CreateCall(u, type) ==
    /\ budget > 0
    /\ upd[u].pc = "idle"
    /\ Project \in DOMAIN projects
    /\ TableStart(vault[Project].lines, type) # -1
    /\ budget' = budget - 1
    /\ upd' = [upd EXCEPT ![u] = [IdleUpd EXCEPT !.pc = "created", !.id = Prefix(type)]]
    /\ ev' = [Event("createActionItem", 0, u) EXCEPT !.id = Prefix(type)]
    /\ hist' = NoHist
    /\ UNCHANGED <<vault, host, tl, heap, projects, tasks, milestones, listeners, handles,
                   rx>>

\* the read resolves: generateTaskId, createTaskLine, insertTaskIntoTable, then
\* `await this.app.vault.modify(projectFile, updatedLines.join("\n"))`
CreateRead(u, type) ==
    /\ upd[u].pc = "created"
    /\ upd[u].id = Prefix(type)
    /\ upd' = [upd EXCEPT ![u].pc = "creating",
                          ![u].lines = insertTaskIntoTable(
                                          vault[Project].lines,
                                          generateTaskId(getProjectTasks(Project), type),
                                          type)]
    /\ ev' = Event("read", 0, u)
    /\ UNCHANGED <<vault, host, tl, heap, projects, tasks, milestones, listeners, handles,
                   rx, hist, budget>>

\* the modify resolves: the text is on disk, `await this.cache.reindex()` starts
CreateWrite(u) ==
    /\ upd[u].pc = "creating"
    /\ FreeRx # 0
    /\ vault' = [vault EXCEPT ![Project].lines = upd[u].lines]
    /\ Enter(Cache, FreeRx, u, "write",
             [upd EXCEPT ![u].pc = "reindex", ![u].lines = <<>>], NoHist)
    /\ UNCHANGED <<host, tl, handles, budget>>

(***************************************************************************)
(* TimelineView: saveAndRender(), render() and the animation frames         *)
(***************************************************************************)
Offsets == [v : 0..MaxScrollTop, h : 0..MaxScrollLeft]
\* pendingScroll = null
NoOffsets == [v |-> -1, h |-> -1]
\* scrollTop / scrollLeft of a pane that was just built
Origin == [v |-> 0, h |-> 0]

\* private renderQueued = false; private pendingScroll = null; no callback waits.
\* open: onOpen() has run. calls, first, had, renders, got, want, op record what
\* happened: the saveAndRender() calls since the last frame and pendingScroll after
\* the first of them, the calls the last frame answered and the render() calls it
\* made, the offsets its scroll restore set and the ones the calls had asked for
NewView ==
    [open |-> FALSE, renderQueued |-> FALSE, pendingScroll |-> NoOffsets,
     scroll |-> Origin, queue |-> <<>>,
     calls |-> 0, first |-> NoOffsets, had |-> 0, renders |-> 0,
     got |-> NoOffsets, want |-> NoOffsets, op |-> "new"]

\* a callback passed to requestAnimationFrame; scroll is the restoreScroll that the
\* callback of render() has closed over
FrameCallback(kind, scroll, want) == [kind |-> kind, scroll |-> scroll, want |-> want]

\* render(): restoreScroll = this.pendingScroll ?? the offsets of the pane; el.empty()
\* and the new layout; requestAnimationFrame(final scroll restore)
render(t, want) ==
    LET restoreScroll == IF t.pendingScroll # NoOffsets THEN t.pendingScroll ELSE t.scroll
    IN [t EXCEPT !.scroll = Origin,
                 !.queue = Append(t.queue, FrameCallback("restore", restoreScroll, want)),
                 !.renders = t.renders + 1]

\* one callback of the frame
RunCallback(t, cb) ==
    CASE cb.kind = "render" ->
            \* this.renderQueued = false; this.render()
            render([t EXCEPT !.renderQueued = FALSE], cb.want)
      [] cb.kind = "restore" ->
            \* v, h = this.pendingScroll ? this.pendingScroll : restoreScroll;
            \* rightEl.scrollTop = v; rightEl.scrollLeft = h;
            \* requestAnimationFrame(() => (this.pendingScroll = null))
            LET o == IF t.pendingScroll # NoOffsets THEN t.pendingScroll ELSE cb.scroll
            IN [t EXCEPT !.scroll = o,
                         !.queue = Append(t.queue, FrameCallback("clear", NoOffsets, NoOffsets)),
                         !.got = IF cb.want # NoOffsets THEN o ELSE t.got,
                         !.want = IF cb.want # NoOffsets THEN cb.want ELSE t.want]
      [] OTHER ->
            \* this.pendingScroll = null
            [t EXCEPT !.pendingScroll = NoOffsets]

\* the callbacks of one frame, in the order of their requestAnimationFrame calls
RECURSIVE RunCallbacks(_, _)
RunCallbacks(t, cbs) ==
    IF cbs = <<>> THEN t ELSE RunCallbacks(RunCallback(t, cbs[1]), Tail(cbs))

\* onOpen(): this.render(); this.detachFn = this.cache.onChange(() => this.saveAndRender())
OnOpen ==
    /\ ~tl.open
    /\ tl' = [render([tl EXCEPT !.open = TRUE], NoOffsets) EXCEPT !.renders = 0, !.op = "open"]
    /\ UNCHANGED <<vault, host, heap, projects, tasks, milestones, listeners, handles,
                   rx, upd, ev, hist, budget>>

\* saveAndRender()
SaveAndRender ==
    /\ tl.open
    /\ tl.calls < MaxBatch
    /\ LET t1 == IF tl.pendingScroll = NoOffsets
                 THEN [tl EXCEPT !.pendingScroll = tl.scroll]
                 ELSE tl
           t2 == [t1 EXCEPT !.calls = tl.calls + 1,
                            !.first = IF tl.calls = 0 THEN t1.pendingScroll ELSE tl.first,
                            !.op = "save"]
       IN tl' = IF t2.renderQueued THEN t2
                ELSE [t2 EXCEPT !.renderQueued = TRUE,
                                !.queue = Append(t2.queue,
                                                 FrameCallback("render", NoOffsets, t2.first))]
    /\ UNCHANGED <<vault, host, heap, projects, tasks, milestones, listeners, handles,
                   rx, upd, ev, hist, budget>>

\* the next animation frame: the callbacks requested before it run one after the other
AnimationFrame ==
    /\ tl.open
    /\ tl.queue # <<>> \/ tl.op # "frame"
    /\ tl' = [RunCallbacks([tl EXCEPT !.queue = <<>>, !.renders = 0,
                                      !.got = NoOffsets, !.want = NoOffsets],
                           tl.queue)
                 EXCEPT !.had = tl.calls, !.calls = 0, !.first = NoOffsets, !.op = "frame"]
    /\ UNCHANGED <<vault, host, heap, projects, tasks, milestones, listeners, handles,
                   rx, upd, ev, hist, budget>>

\* the user scrolls the right pane
Scroll(o) ==
    /\ tl.open
    /\ o # tl.scroll
    /\ tl' = [tl EXCEPT !.scroll = o, !.op = "scroll"]
    /\ UNCHANGED <<vault, host, heap, projects, tasks, milestones, listeners, handles,
                   rx, upd, ev, hist, budget>>

(***************************************************************************)
(* Specifications                                                          *)
(***************************************************************************)
InitWith(docs, hosts, flags, calls) ==
    /\ host \in hosts
    /\ \E d \in docs, f \in flags :
          vault = [p \in Paths |-> IF p = Files[1] THEN Note(host, TRUE, d)
                                   ELSE Note(host, f, OtherDoc)]
    /\ heap = NoHeap
    /\ projects = NoProjects
    /\ tasks = <<>>
    /\ milestones = <<>>
    /\ listeners = <<>>
    /\ handles = {}
    /\ rx = [r \in Rx |-> IdleRx]
    /\ upd = [u \in Updaters |-> IdleUpd]
    /\ ev = NoEvent
    /\ hist = NoHist
    /\ budget = calls
    /\ tl = NewView

Init == InitWith(ConcDocs, ConcHosts, BOOLEAN, MaxCalls)

Calls ==
    \/ ReindexCall
    \/ \E u \in Updaters, id \in IdInputs, ch \in ConcChanges : UpdateCall(u, id, ch)
    \/ \E cb \in Callbacks : OnChange(cb)
    \/ \E cb \in Callbacks : Unsubscribe(cb)

Resumes ==
    \/ \E r \in Rx : ReindexResume(r)
    \/ \E u \in Updaters : UpdateRead(u)
    \/ \E u \in Updaters : UpdateReadFails(u)
    \/ \E u \in Updaters : UpdateWrite(u)
    \/ \E u \in Updaters : UpdateWriteFails(u)
    \/ \E p \in Paths : MetaRefresh(p)

Next == Calls \/ Resumes

Spec == Init /\ [][Next]_vars

\* one call at a time, over every document of the bound
InitSeq == InitWith(SeqDocs, Hosts, BOOLEAN, MaxSeqCalls)

SeqReindexCall == Quiet /\ ReindexCall
SeqUpdateCall(u, id, ch) == Quiet /\ UpdateCall(u, id, ch)
SeqOnChange(cb) == Quiet /\ OnChange(cb)
SeqUnsubscribe(cb) == Quiet /\ Unsubscribe(cb)

NextSeq ==
    \/ SeqReindexCall
    \/ \E u \in Updaters, id \in IdInputs, ch \in ChangeSet : SeqUpdateCall(u, id, ch)
    \/ \E cb \in Callbacks : SeqOnChange(cb)
    \/ \E cb \in Callbacks : SeqUnsubscribe(cb)
    \/ Resumes

SpecSeq == InitSeq /\ [][NextSeq]_vars

\* the notes of the runs that update one task after the other
UpdDocs ==
    {<<RowE1, RowE1b>>, <<ItemB, AttrDue>>, <<Header, RowE2>>, <<ItemT>>, <<RowQ, ItemB>>,
     <<RowE2, RowE1, RowE1b>>}

\* updateTask() and moveTaskToStatus() calls, one call at a time
InitUpd == InitWith(UpdDocs, Hosts, BOOLEAN, MaxUpdCalls)

SeqMoveTaskToStatus(u, id, status) == Quiet /\ moveTaskToStatus(u, id, status)

NextUpd ==
    \/ SeqReindexCall
    \/ \E u \in Updaters, id \in IdInputs, ch \in ChangeSet : SeqUpdateCall(u, id, ch)
    \/ \E u \in Updaters, id \in IdInputs, status \in StatusValues :
           SeqMoveTaskToStatus(u, id, status)
    \/ Resumes

SpecUpd == InitUpd /\ [][NextUpd]_vars

\* the callbacks of the runs with observers
ObsCallbacks == {1, 2, 3, 4}

\* observers come and go around reindex() calls, over one note
InitObs == InitWith({<<RowE1>>}, ConcHosts, {FALSE}, MaxObsCalls)

NextObs ==
    \/ SeqReindexCall
    \/ \E r \in Rx : ReindexResume(r)
    \/ \E cb \in ObsCallbacks : OnChange(cb)
    \/ \E cb \in ObsCallbacks : Unsubscribe(cb)

SpecObs == InitObs /\ [][NextObs]_vars

\* | E-1 | - [ ] B | ^x
RowCaret == MkLine("row", <<"E-1", TaskCell>>, " ", <<"B">>, <<>>, <<"x">>)
\* | E-2 | - [ ] B |
RowE2b == MkLine("row", <<"E-2", TaskCell>>, " ", <<"B">>, <<>>, <<>>)

\* project notes with an Epics table whose first-column ids are distinct
CreateDocs ==
    {<<Heading("epic")>>,
     <<Heading("epic"), RowE1>>,
     <<Heading("epic"), RowE1, RowE2b>>,
     <<Heading("epic"), RowCaret>>}

\* reindex() and createActionItem() calls, one after the other
InitCreate == InitWith(CreateDocs, Hosts, {FALSE}, MaxCreateCalls)

SeqCreateCall(u, type) == Quiet /\ CreateCall(u, type)

NextCreate ==
    \/ SeqReindexCall
    \/ \E r \in Rx : ReindexResume(r)
    \/ \E u \in Updaters, type \in Types : SeqCreateCall(u, type)
    \/ \E u \in Updaters, type \in Types : CreateRead(u, type)
    \/ \E u \in Updaters : CreateWrite(u)
    \/ \E p \in Paths : MetaRefresh(p)

SpecCreate == InitCreate /\ [][NextCreate]_vars

\* a TimelineView over an index that does not change
InitView == InitWith({<<ItemB>>}, {CHOOSE h \in Hosts : TRUE}, {FALSE}, 0)

NextView ==
    \/ OnOpen
    \/ SaveAndRender
    \/ AnimationFrame
    \/ \E o \in Offsets : Scroll(o)

SpecView == InitView /\ [][NextView]_vars

\* the notes of the runs in which the user edits notes
EditDocs == {<<ItemB, ItemT>>, <<RowE1, RowE1b>>, <<Header, MRow, RowE1>>}

\* reindex() calls that may start while another is suspended on a read; no note changes
InitPair == InitWith(EditDocs, Hosts, BOOLEAN, MaxPairCalls)

NextPair ==
    \/ ReindexCall
    \/ \E r \in Rx : ReindexResume(r)

SpecPair == InitPair /\ [][NextPair]_vars

\* reindex() calls, one after the other, with edits of the user in between
InitEdit == InitWith(EditDocs, Hosts, BOOLEAN, MaxEditCalls)

NextEdit ==
    \/ SeqReindexCall
    \/ \E r \in Rx : ReindexResume(r)
    \/ \E p \in Paths, i \in 1..MaxEditLines : DeleteLine(p, i)
    \/ \E p \in Paths, b \in BOOLEAN : SetFlag(p, b)
    \/ \E p \in Paths : RemoveNote(p)
    \/ \E p \in Paths : MetaRefresh(p)

SpecEdit == InitEdit /\ [][NextEdit]_vars

\* reindex() calls only, one after the other, over every document of the bound
InitScan == InitWith(ScanDocs, Hosts, BOOLEAN, MaxScanCalls)

NextScan ==
    \/ SeqReindexCall
    \/ \E r \in Rx : ReindexResume(r)

SpecScan == InitScan /\ [][NextScan]_vars

(***************************************************************************)
(* Properties                                                              *)
(***************************************************************************)
Flagged == {p \in Paths : vault[p].flag}

\* the metadata cache is up to date with the text of every note
MetaFresh == \A p \in Paths : vault[p].items = HostParse(host, vault[p].lines)

Range(q) == {q[i] : i \in 1..Len(q)}

TaskAt(p, i) == heap[projects[p].tasks[i]]

\* every flagged note has its entry, its tasks are in the lookup map and its
\* milestones in the milestone list
IndexComplete ==
    \A p \in Flagged :
        /\ p \in DOMAIN projects
        /\ \A i \in 1..Len(projects[p].tasks) :
               MapGet(tasks, makeTaskKey(p, TaskAt(p, i).id)) # 0
        /\ Range(ScanDocument(p, vault[p].lines, vault[p].items).ms) \subseteq Range(milestones)

\* C1: whenever registered callbacks are invoked, the index is completely rebuilt
\* (an entry for every flagged note, with its tasks and milestones), also when
\* reindex() calls overlap.
C1_ObserversSeeCompleteIndex == ev.calls # <<>> => IndexComplete

\* the last flagged note of getMarkdownFiles(), <<>> when none is flagged
LastFlagged ==
    IF \E j \in 1..Len(Files) : vault[Files[j]].flag
    THEN Files[CHOOSE j \in 1..Len(Files) :
                 /\ vault[Files[j]].flag
                 /\ \A k \in 1..Len(Files) : vault[Files[k]].flag => k <= j]
    ELSE <<>>

\* C2: a reindex() call that completes invokes every registered callback exactly once,
\* in registration order, after the last flagged note has been stored in projects;
\* a step that does not complete a reindex() invokes no callback.
C2_NotifyOnceAtCompletion ==
    /\ ev.fin => /\ ev.calls = listeners
                 /\ \A i, j \in 1..Len(ev.calls) : ev.calls[i] = ev.calls[j] => i = j
                 /\ LastFlagged # <<>> => LastFlagged \in DOMAIN projects
    /\ ~ev.fin => ev.calls = <<>>

C2_Witness ==
    /\ ev.fin
    /\ Len(ev.calls) = 2
    /\ DOMAIN projects = Paths

\* C3: a reindex() that runs undisturbed after an undisturbed reindex(), with no
\* document change in between, leaves the collections the first one left.
C3_ReindexIdempotent == ev.twice => View = hist.view

\* a second undisturbed reindex() has completed over a note with a task and a milestone
C3_Witness ==
    /\ ev.twice
    /\ milestones # <<>>
    /\ \E p \in DOMAIN projects : projects[p].tasks # <<>>

\* C4: the line numbers of the tasks of a project entry are pairwise distinct.
C4_OneTaskPerLine ==
    \A p \in DOMAIN projects :
        \A i, j \in 1..Len(projects[p].tasks) :
            TaskAt(p, i).line = TaskAt(p, j).line => i = j

\* a table row that the host lists and that matches the raw-line pattern has its task
C4_Witness ==
    \E p \in DOMAIN projects :
        \E i \in 1..Len(projects[p].tasks), k \in 1..Len(vault[p].items) :
            /\ vault[p].items[k].line = TaskAt(p, i).line
            /\ FallbackTaskMatch(LineAt(vault[p].lines, TaskAt(p, i).line))

\* position of the last task of the list whose id has the key of the task at i
LastWithKey(p, i) ==
    CHOOSE j \in 1..Len(projects[p].tasks) :
        /\ toLowerCase(TaskAt(p, j).id) = toLowerCase(TaskAt(p, i).id)
        /\ \A k \in 1..Len(projects[p].tasks) :
               toLowerCase(TaskAt(p, k).id) = toLowerCase(TaskAt(p, i).id) => k <= j

\* C5: for an id that occurs on several task lines of a note, the composite key finds the
\* occurrence assembled last, every occurrence stays in the project's task list, and the
\* lookup map has one entry per key.
C5_LastOccurrenceWins ==
    /\ \A p \in DOMAIN projects :
          \A i \in 1..Len(projects[p].tasks) :
              MapGet(tasks, makeTaskKey(p, TaskAt(p, i).id))
                  = projects[p].tasks[LastWithKey(p, i)]
    /\ \A i, j \in 1..Len(tasks) : tasks[i].key = tasks[j].key => i = j

C5_Witness ==
    \E p \in DOMAIN projects :
        \E i, j \in 1..Len(projects[p].tasks) :
            /\ i < j
            /\ TaskAt(p, i).id = TaskAt(p, j).id
            /\ MapGet(tasks, makeTaskKey(p, TaskAt(p, i).id)) = projects[p].tasks[j]
            /\ projects[p].tasks[i] # projects[p].tasks[j]

\* the task getTask finds for taskId has the id `id`, case-insensitively
Finds(taskId, id) ==
    /\ getTask(tasks, taskId) # 0
    /\ toLowerCase(heap[getTask(tasks, taskId)].id) = toLowerCase(id)

\* C6: for every task t of the index, getTask(t.id) and getTask(t.file.path + "::" + t.id)
\* return a task whose id equals t.id case-insensitively.
C6_GetTaskFindsIndexedTasks ==
    \A i \in 1..Len(tasks) :
        LET t == heap[tasks[i].ref]
        IN Finds(t.id, t.id) /\ Finds(t.file \o <<":", ":">> \o t.id, t.id)

\* C7: updateTask with an id that is not a key of the index returns without touching
\* documents, index, observers or running activations.
C7_UnknownIdIsNoOp ==
    [][(ev'.op = "updateTask" /\ ev'.res # "key")
          => /\ ev'.ret = "miss"
             /\ ev'.calls = <<>>
             /\ UNCHANGED <<vault, heap, projects, tasks, milestones, listeners, rx, upd>>]_vars

\* updateTask has returned for an id that no key of a non-empty index ends with
C7_Witness ==
    /\ ev.op = "updateTask"
    /\ ev.ret = "miss"
    /\ ev.res = "none"
    /\ tasks # <<>>
    /\ listeners # <<>>

\* the value of the `due` change of the updateTask call that has just returned
DueChange == ev.ch.props[1][2]

\* C8: when updateTask(id, {due: v}) has returned (its reindex done, metadata current),
\* getTask(id).props.due is v.
C8_DueIsReadBack ==
    (ev.ret = "ok" /\ ev.ch.props # <<>> /\ ev.ch.props[1][1] = "due" /\ MetaFresh)
        => /\ getTask(tasks, ev.id) # 0
           /\ GetProp(heap[getTask(tasks, ev.id)].props, "due") = DueChange

\* the fields of a task that a change to another task must leave alone
Frame(t) == [props |-> t.props, text |-> t.text, status |-> t.status,
             checked |-> t.checked, line |-> t.line]

\* the task the returned updateTask call had looked up, in the index before the call
Target == LET i == CHOOSE i \in 1..Len(ev.before.tasks) : ev.before.tasks[i].key = ev.id
          IN ev.before.tasks[i].task

\* C9: when updateTask with a property change has returned, every other task has the
\* properties, text, status, checked flag and line it had before the call.
C9_OtherTasksUnchanged ==
    (ev.ret = "ok" /\ ev.ch.props # <<>> /\ MetaFresh)
        => \A p \in DOMAIN ev.before.projects :
              \A i \in 1..Len(ev.before.projects[p].tasks) :
                  LET t == ev.before.projects[p].tasks[i]
                  IN (t.file = Target.file /\ t.line = Target.line)
                     \/ /\ p \in DOMAIN projects
                        /\ \E j \in 1..Len(projects[p].tasks) :
                               Frame(TaskAt(p, j)) = Frame(t)

\* C10: when the read or the write inside updateTask fails, the index is as it was
\* before the call and no observer is notified.
C10_FailureLeavesIndex ==
    ev.ret = "error" => (View = ev.before /\ ev.calls = <<>>)

\* the status a checkbox glyph stands for
GlyphStatus(g) ==
    CASE g \in {"x", "X"} -> "done"
      [] g = "/" -> "in-progress"
      [] g = "-" -> "on-hold"
      [] OTHER -> "not-started"

\* C11: the status of every task is the one its line's checkbox glyph stands for ([x] or
\* [X] done, [/] in-progress, [-] on-hold, anything else not-started) and checked is
\* true only for [x] or [X], whichever walk built the task.
C11_StatusFromGlyph ==
    \A p \in DOMAIN projects :
        \A i \in 1..Len(projects[p].tasks) :
            LET glyph == LineAt(vault[p].lines, TaskAt(p, i).line).glyph
            IN /\ TaskAt(p, i).status = GlyphStatus(glyph)
               /\ TaskAt(p, i).checked = (glyph \in {"x", "X"})

\* the number of checked tasks of the entry of p
CheckedCount(p) ==
    Cardinality({i \in 1..Len(projects[p].tasks) : TaskAt(p, i).checked})

\* C12: the percentComplete of every project entry is the number of its checked tasks
\* divided by the number of its tasks, and 1 when it has no tasks; so it lies in 0..1.
C12_PercentComplete ==
    \A p \in DOMAIN projects :
        LET pc == projects[p].percentComplete
            n  == Len(projects[p].tasks)
        IN /\ pc.den > 0
           /\ n = 0 => pc.num = pc.den
           /\ n > 0 => pc.num * n = CheckedCount(p) * pc.den
           /\ 0 <= pc.num /\ pc.num <= pc.den

\* an entry with four tasks, one of them checked, has percentComplete 1/4
C12_Witness ==
    \E p \in DOMAIN projects :
        /\ Len(projects[p].tasks) = 4
        /\ CheckedCount(p) = 1
        /\ projects[p].percentComplete.num * 4 = projects[p].percentComplete.den

\* the date of the last emoji token of line l that sets property k, Undefined when none
EmojiDate(l, k) ==
    IF \E j \in 1..Len(l.emoji) : EmojiKey(l.emoji[j][1]) = k
    THEN l.emoji[CHOOSE j \in 1..Len(l.emoji) :
                     /\ EmojiKey(l.emoji[j][1]) = k
                     /\ \A m \in 1..Len(l.emoji) : EmojiKey(l.emoji[m][1]) = k => m <= j][2]
    ELSE Undefined

\* C13: a task whose line carries both an inline `due:: D1` and a due emoji followed by
\* the date D2 has props.due = D2 (likewise start), whichever walk assembled it.
C13_EmojiDateWins ==
    \A p \in DOMAIN projects :
        \A i \in 1..Len(projects[p].tasks) :
            LET l == LineAt(vault[p].lines, TaskAt(p, i).line)
            IN \A k \in {"due", "start"} :
                   (/\ \E j \in 1..Len(l.kv) : l.kv[j][1] = k
                    /\ EmojiDate(l, k) # Undefined)
                   => GetProp(TaskAt(p, i).props, k) = EmojiDate(l, k)

\* the leftmost cell whose lower-case form is in the priority vocabulary, 0 when none
LeftmostPriority(cells) ==
    IF \E j \in 1..Len(cells) : LowerStr(cells[j]) \in PriorityVocabulary
    THEN CHOOSE j \in 1..Len(cells) :
             /\ LowerStr(cells[j]) \in PriorityVocabulary
             /\ \A k \in 1..Len(cells) : LowerStr(cells[k]) \in PriorityVocabulary => j <= k
    ELSE 0

\* the tasks of the index whose line is a row of a pipe table, as <<note, position>>
RowTasks ==
    {pi \in UNION {{<<p, i>> : i \in 1..Len(projects[p].tasks)} : p \in DOMAIN projects} :
        PipeLeading(LineAt(vault[pi[1]].lines, TaskAt(pi[1], pi[2]).line))}

\* epic and story come from the second cell, priority from the leftmost vocabulary cell
CellsGiveProps(t, cells) ==
    /\ (Len(cells) >= 2 /\ IsEpicRef(cells[2])) => GetProp(t.props, "epic") = cells[2]
    /\ (Len(cells) >= 2 /\ IsStoryRef(cells[2])) => GetProp(t.props, "story") = cells[2]
    /\ LeftmostPriority(cells) # 0
           => GetProp(t.props, "priority") = cells[LeftmostPriority(cells)]

\* C14 (as stated): for every task row, epic is cell[1] when of the form E-<digits>, story
\* is cell[1] when of the form S-<digits>, priority is the leftmost cell of the priority
\* vocabulary, verbatim, and absent when no cell matches.
C14_TableCells ==
    \A pi \in RowTasks :
        LET t == TaskAt(pi[1], pi[2])
            cells == SplitCells(LineAt(vault[pi[1]].lines, t.line))
        IN /\ CellsGiveProps(t, cells)
           /\ LeftmostPriority(cells) = 0 => GetProp(t.props, "priority") = Undefined

\* C14 (amended): as above, but priority is absent when no cell matches and the inline
\* annotations of the row give no priority either; an inline `priority:: V` of a row
\* without a vocabulary cell stays.
C14_TableCellsOrInline ==
    \A pi \in RowTasks :
        LET t == TaskAt(pi[1], pi[2])
            l == LineAt(vault[pi[1]].lines, t.line)
            cells == SplitCells(l)
            inline == ApplyPairs(NoProps, InlinePairs(l))
        IN /\ CellsGiveProps(t, cells)
           /\ LeftmostPriority(cells) = 0
                  => GetProp(t.props, "priority") = GetProp(inline, "priority")

\* the story row of the example is indexed with epic E-1, priority high and the
\* description of its last cell
C14_Witness ==
    \E pi \in RowTasks :
        LET t == TaskAt(pi[1], pi[2])
        IN /\ LineAt(vault[pi[1]].lines, t.line) = RowStory
           /\ GetProp(t.props, "epic") = "E-1"
           /\ GetProp(t.props, "priority") = "high"
           /\ GetProp(t.props, "description") = "Improve onboarding"

\* C15: after a reindex() over a project note that holds the checklist item
\* `- [ ] E-1 Build API` with the continuation lines `due:: 2025-08-01` and
\* `assignee:: Ann`, getTask("E-1") returns a task with props.due = 2025-08-01,
\* props.assignee = Ann, status not-started and checked = false.
C15_ActionItemRetrievable ==
    (/\ ev.fin
     /\ \E p \in Paths : Flagged = {p} /\ vault[p].lines = ActionItemDoc)
    => LET ref == getTask(tasks, <<"E", "-", "1">>)
       IN /\ ref # 0
          /\ GetProp(heap[ref].props, "due") = "2025-08-01"
          /\ GetProp(heap[ref].props, "assignee") = "Ann"
          /\ heap[ref].status = "not-started"
          /\ ~heap[ref].checked

\* the task a view holds under key id
ViewTask(view, id) ==
    view.tasks[CHOOSE i \in DOMAIN view.tasks : view.tasks[i].key = id].task

\* the changes argument moveTaskToStatus passes on
StatusOnly(ch) == \E status \in StatusValues : ch = StatusChange(status)

\* C16: an updateTask(id, {[statusProperty]: v}), which is what moveTaskToStatus(id, v)
\* makes, writes the note without changing the checkbox of the task's primary line, and
\* when it has completed the task is indexed on that line with the status and the
\* checked flag that line's checkbox gives, which therefore are those of before the call.
C16_MoveKeepsGlyph ==
    [][/\ (ev'.op = "write" /\ StatusOnly(upd[ev'.u].ch))
           => LET t == heap[upd[ev'.u].ref]
              IN /\ LineAt(vault'[t.file].lines, t.line).glyph
                        = LineAt(vault[t.file].lines, t.line).glyph
                 /\ LineAt(vault'[t.file].lines, t.line).marks
                        = LineAt(vault[t.file].lines, t.line).marks
       /\ (ev'.ret = "ok" /\ StatusOnly(ev'.ch))
           => LET b == ViewTask(ev'.before, ev'.id)
                  l == LineAt(vault'[b.file].lines, b.line)
                  ts == projects'[b.file].tasks
              IN /\ \E i \in 1..Len(ts) : heap'[ts[i]].line = b.line
                 /\ \A i \in 1..Len(ts) :
                        heap'[ts[i]].line = b.line
                        => /\ heap'[ts[i]].status = StatusOf(l)
                           /\ heap'[ts[i]].checked = DoneGlyph(l)
      ]_vars

\* a moveTaskToStatus(id, "done") has completed on a task that is still not-started and
\* unchecked, and whose status property is done
C16_Witness ==
    /\ ev.ret = "ok"
    /\ ev.ch = StatusChange("done")
    /\ MapGet(tasks, ev.id) # 0
    /\ heap[MapGet(tasks, ev.id)].status = "not-started"
    /\ ~heap[MapGet(tasks, ev.id)].checked
    /\ GetProp(heap[MapGet(tasks, ev.id)].props, statusProperty) = "done"

\* the entries of q that are in set S, in the order of q
Only(q, S) == SelectSeq(q, LAMBDA y : y \in S)

\* C17: calling the handle onChange(cb) returned removes cb and nothing else, however
\* often it is called; a completing reindex() invokes, once each and in registration
\* order, the registered callbacks whose handle has not been called, also when a
\* callback calls a handle during the notification: every callback still registered
\* afterwards has been invoked, and only callbacks whose handle an invoked callback
\* called have been removed.
C17_UnsubscribeRemovesOnlyItself ==
    [][/\ ev'.op = "unsubscribe"
           => /\ ev'.cb \notin Range(listeners')
              /\ listeners' = Only(listeners, Range(listeners) \ {ev'.cb})
       /\ ev'.fin
           => /\ ev'.calls = Only(listeners, Range(ev'.calls))
              /\ \A i, j \in 1..Len(ev'.calls) : ev'.calls[i] = ev'.calls[j] => i = j
              /\ Range(listeners') \subseteq Range(ev'.calls)
              /\ listeners' = Only(listeners, Range(listeners'))
              /\ Range(listeners) \ Range(listeners')
                     \subseteq UNION {Detaches(c) : c \in Range(ev'.calls)}
       /\ ~ev'.fin => ev'.calls = <<>>
      ]_vars

\* a reindex() has invoked a callback that called its own handle, and after it the
\* callback registered next
C17_Witness ==
    /\ ev.fin
    /\ \E i \in 1..Len(ev.calls) : ev.calls[i] = 3 /\ i < Len(ev.calls)
    /\ 3 \notin Range(listeners)
    /\ listeners # <<>>

\* the line indexes updateTask may rewrite for task t and changes ch
Touched(t, ch) == {t.line} \cup (IF ch.props # <<>> THEN {t.line + 1} ELSE {})

\* C18: the lines updateTask is about to write differ from the lines it read only at
\* the task's primary line and, when a property other than checked/text is changed, at
\* the line after it; the number of lines is the same when the primary line is not the
\* last line of the note.
C18_OnlyTouchedLinesChange ==
    [][ev'.op = "read"
       => LET u   == ev'.u
              t   == heap[upd[u].ref]
              old == vault[t.file].lines
              new == upd'[u].lines
          IN /\ \A i \in 0..(Len(old) + Len(new)) :
                    i \notin Touched(t, upd[u].ch) => LineAt(new, i) = LineAt(old, i)
             /\ t.line + 1 < Len(old) => Len(new) = Len(old)
             /\ Len(new) >= Len(old)
      ]_vars

\* a property change has rewritten the line after the primary line of a task that is
\* not on the last line, and a later line of the note is as it was
C18_Witness ==
    \E u \in Updaters :
        /\ upd[u].pc = "write"
        /\ upd[u].ch.props # <<>>
        /\ LET t   == heap[upd[u].ref]
               old == vault[t.file].lines
           IN /\ t.line + 2 < Len(old)
              /\ Len(upd[u].lines) = Len(old)
              /\ LineAt(upd[u].lines, t.line + 1) # LineAt(old, t.line + 1)
              /\ LineAt(upd[u].lines, t.line + 2) = LineAt(old, t.line + 2)

\* the text of every note is as it was
SameText == \A p \in Paths : vault'[p].lines = vault[p].lines

\* C19: an updateTask() on an id that is found reads the note, then writes the rewritten
\* text, then runs a reindex() of its own, whatever the changes are, and returns only in
\* the step that completes this reindex() and notifies the observers; the text of a
\* note changes in the write step only.
C19_ReadWriteReindexNotify ==
    [][\A u \in Updaters :
          /\ (upd[u].pc = "idle" /\ upd'[u].pc # "idle")
                 => upd'[u].pc = "read" /\ ev'.op = "updateTask" /\ SameText
          /\ (upd[u].pc = "read" /\ upd'[u].pc # "read")
                 => /\ SameText
                    /\ \/ upd'[u].pc = "write" /\ ev'.op = "read"
                       \/ upd'[u].pc = "idle" /\ ev'.ret = "error"
          /\ (upd[u].pc = "write" /\ upd'[u].pc # "write")
                 => \/ /\ ev'.op = "write"
                       /\ vault'[heap[upd[u].ref].file].lines = upd[u].lines
                       /\ upd'[u].pc = "reindex"
                       /\ \E r \in Rx : /\ rx[r].pc = "idle"
                                         /\ rx'[r].pc = "read"
                                         /\ rx'[r].owner = u
                       /\ projects' = NoProjects /\ tasks' = <<>> /\ milestones' = <<>>
                    \/ upd'[u].pc = "idle" /\ ev'.ret = "error" /\ SameText
          /\ (upd[u].pc = "reindex" /\ upd'[u].pc # "reindex")
                 => /\ upd'[u].pc = "idle"
                    /\ ev'.ret = "ok" /\ ev'.fin /\ ev'.u = u
                    /\ \E r \in Rx : rx[r].owner = u /\ rx[r].pc = "read" /\ rx'[r].pc = "idle"
                    /\ ev'.calls = listeners
                    /\ SameText
          /\ (upd[u].pc = "reindex" /\ upd'[u].pc = "reindex")
                 => \E r \in Rx : rx'[r].owner = u /\ rx'[r].pc = "read"
          /\ upd[u].pc # "write" => SameText
      ]_vars

\* an updateTask() that changed a property has returned: its reindex() has completed and
\* the registered observer has been notified
C19_Witness ==
    /\ ev.ret = "ok"
    /\ ev.fin
    /\ ev.ch.props # <<>>
    /\ ev.calls # <<>>
    /\ DOMAIN projects # {}
    /\ upd[ev.u].pc = "idle"

\* C20: a task row that carries an explicit `description:: V` annotation is indexed with
\* props.description = V; the rightmost non-date cell is used only when there is no
\* such annotation.
C20_ExplicitDescriptionWins ==
    \A pi \in RowTasks :
        LET t == TaskAt(pi[1], pi[2])
            inline == ApplyPairs(NoProps, InlinePairs(LineAt(vault[pi[1]].lines, t.line)))
        IN GetProp(inline, "description") # Undefined
               => GetProp(t.props, "description") = GetProp(inline, "description")

\* C21: the id of every task of the index is in lower case, whichever way it was
\* resolved (host identifier, caret anchor, first table cell, synthetic id).
C21_IdsLowercase ==
    \A p \in DOMAIN projects :
        \A i \in 1..Len(projects[p].tasks) :
            TaskAt(p, i).id = toLowerCase(TaskAt(p, i).id)

\* the indexes of the rows of a note that follow a header row with Title and Date
\* through pipe rows only, have at least 4 cells and an ISO date in cell[3]
MilestoneLines(lines) ==
    {r \in 0..(Len(lines) - 1) :
        /\ PipeLeading(LineAt(lines, r))
        /\ Len(RawCells(LineAt(lines, r))) >= 4
        /\ IsIsoDate(RawCells(LineAt(lines, r))[4])
        /\ \E h \in 0..(r - 1) :
               /\ IsMilestoneHeader(LineAt(lines, h))
               /\ \A k \in h..r : PipeLeading(LineAt(lines, k))}

\* C22: when a reindex() has completed, every flagged note has given one milestone for
\* each of its milestone rows and no other, however many table-task rows it contains.
C22_MilestonesIndependent ==
    ev.fin =>
        \A p \in Flagged :
            Len(SelectSeq(milestones, LAMBDA m : m.file = p))
                = Cardinality(MilestoneLines(vault[p].lines))

\* the index a scan of the current text of the notes from..Len(Files) adds to c, with
\* the list items the host finds in that text
RECURSIVE Rebuilt(_, _)
Rebuilt(c, from) ==
    IF from > Len(Files) THEN c
    ELSE LET p == Files[from]
         IN Rebuilt(IF vault[p].fm
                    THEN ScanAndStore(c, p, vault[p].lines, HostParse(host, vault[p].lines))
                    ELSE c,
                    from + 1)

\* C23: when a reindex() has completed and no other is in flight, the three collections
\* hold what the current text of the currently flagged notes gives, and nothing else:
\* nothing of a removed or unflagged note or of a deleted line, and an entry for every
\* flagged note.
C23_OnlyCurrentRecords ==
    (ev.fin /\ ActiveRx = {})
    => View = ViewOf(Rebuilt([heap |-> NoHeap, projects |-> NoProjects,
                              tasks |-> <<>>, milestones |-> <<>>], 1))

\* the due values of the open tasks of project p: checked = false and a non-empty value
OpenDues(p) ==
    {GetProp(TaskAt(p, i).props, dueProperty) : i \in
        {k \in 1..Len(projects[p].tasks) :
            /\ ~TaskAt(p, k).checked
            /\ GetProp(TaskAt(p, k).props, dueProperty) \notin {Undefined, ""}}}

\* C24: after reindex(), nextDue of every project entry is the smallest due value among
\* its tasks with checked = false and a non-empty due value, undefined when there is no
\* such task; a checked task never contributes.
C24_NextDueIsSmallestOpenDue ==
    ev.fin =>
        \A p \in DOMAIN projects :
            IF OpenDues(p) = {}
            THEN projects[p].nextDue = Undefined
            ELSE /\ projects[p].nextDue \in OpenDues(p)
                 /\ \A d \in OpenDues(p) : ~StrLess(d, projects[p].nextDue)

\* a completed reindex() of a note whose checked task is due before its open tasks
C24_Witness ==
    /\ ev.fin
    /\ \E p \in DOMAIN projects :
           /\ projects[p].nextDue \in OpenDues(p)
           /\ Cardinality(OpenDues(p)) >= 2
           /\ \E i \in 1..Len(projects[p].tasks) :
                  /\ TaskAt(p, i).checked
                  /\ GetProp(TaskAt(p, i).props, dueProperty) # Undefined
                  /\ StrLess(GetProp(TaskAt(p, i).props, dueProperty), projects[p].nextDue)

\* C25: the saveAndRender() calls made before an animation frame give exactly one
\* render() in that frame, the scroll restore of that render sets the offsets that the
\* first of those calls left in pendingScroll, and renderQueued is false again once the
\* frame has run, so that a later saveAndRender() requests a new render.
C25_OneRenderPerFrame ==
    /\ (tl.op = "frame" /\ tl.had > 0) => (tl.renders = 1 /\ ~tl.renderQueued)
    /\ (tl.op = "frame" /\ tl.had = 0) => tl.renders = 0
    /\ (tl.op = "frame" /\ tl.want # NoOffsets) => tl.got = tl.want
    /\ tl.op = "save" =>
          /\ tl.renderQueued
          /\ Len(SelectSeq(tl.queue, LAMBDA cb : cb.kind = "render")) = 1

\* C26: when reindex() calls have overlapped and no note has changed, then once all of
\* them have returned, projects, tasks and milestones are what a single reindex() gives:
\* no milestone is listed more often and no flagged note is missing.
C26_OverlapGivesSingleScan ==
    LET single == Rebuilt(ClearIndex(Cache), 1)
    IN (ev.fin /\ ActiveRx = {} /\ budget = 0)
       => /\ View = ViewOf(single)
          /\ Len(milestones) <= Len(single.milestones)
          /\ Flagged \subseteq DOMAIN projects

\* C27: updateTask resolves its id as getTask does: it returns without doing anything
\* only for an id for which getTask returns undefined; for an exact key, a bare id and
\* path + "::" + id alike it goes on to rewrite the note of the task.
C27_UpdateResolvesAsGetTask ==
    ev.op = "updateTask" =>
        /\ ev.ret = "miss" => ev.res = "none"
        /\ ev.res \in {"key", "suffix"} =>
              \E u \in Updaters : upd[u].pc = "read" /\ upd[u].ref = getTask(tasks, ev.id)

\* the TaskItem objects a reader reaches through this.tasks and the project entries
Indexed ==
    {tasks[i].ref : i \in 1..Len(tasks)}
    \cup UNION {{projects[p].tasks[i] : i \in 1..Len(projects[p].tasks)} : p \in DOMAIN projects}

\* C28: in every state of the index, also while an updateTask is suspended on its read
\* or its write, every task whose status is done has checked = true.
C28_DoneIsChecked ==
    \A o \in Indexed : heap[o].status = "done" => heap[o].checked

\* C29: when updateTask(key, {checked: c}) on an indexed task has returned, its
\* reindex() included, the task under key has checked = c and its status is done
\* exactly when c is true, for checklist items and table rows and whatever the glyph of
\* the line was.
C29_CheckedChangeTakesEffect ==
    (ev.fin /\ ev.ret = "ok" /\ ev.ch.checked # "none")
    => /\ MapGet(tasks, ev.id) # 0
       /\ heap[MapGet(tasks, ev.id)].checked = (ev.ch.checked = "true")
       /\ (heap[MapGet(tasks, ev.id)].status = "done") = (ev.ch.checked = "true")

\* the first-column ids of the task rows of a note, in lower case, by line
FirstColumnIds(lines) ==
    [i \in {k \in 1..Len(lines) : lines[k].kind = "row" /\ Len(lines[k].cells) >= 1}
        |-> LowerStr(lines[i].cells[1])]

\* the numbers of the indexed ids of project p with the prefix of the type
IdNumbers(p, type) ==
    {IdNumber(getProjectTasks(p)[i].id, type) : i \in 1..Len(getProjectTasks(p))} \ {-1}

\* C30: generateTaskId(project, type) gives an id that differs, whatever the case, from
\* the id of every indexed task of the project, numbered one above the highest indexed
\* number of the type's prefix (1 when there is none); and the first-column ids of the
\* task rows of a project stay pairwise distinct under completed createActionItem calls
\* that insert table rows.
C30_GeneratedIdsAreFresh ==
    /\ \A type \in Types :
          LET ts == getProjectTasks(Project)
              id == generateTaskId(ts, type)
          IN /\ \A i \in 1..Len(ts) : toLowerCase(ts[i].id) # toLowerCase(id)
             /\ id = Prefix(type) \o <<"-">> \o
                     NumChars(IF IdNumbers(Project, type) = {} THEN 1
                              ELSE 1 + CHOOSE n \in IdNumbers(Project, type) :
                                          \A m \in IdNumbers(Project, type) : m <= n)
    /\ \A i, j \in DOMAIN FirstColumnIds(vault[Project].lines) :
          FirstColumnIds(vault[Project].lines)[i] = FirstColumnIds(vault[Project].lines)[j]
              => i = j

====================
